---- MODULE Spec2Model ----
(***************************************************************************)
(* A model of ik-rs, the IK Chinese/English tokenizer: the prefix trie and *)
(* the dictionary built on it, the three sub-segmenters, the ambiguity     *)
(* arbitrator, the output assembler and the tantivy token-stream facade.   *)
(*                                                                         *)
(* Characters are Unicode code points, strings are sequences of code       *)
(* points, Rust Strings handed to tantivy are sequences of UTF-8 bytes.    *)
(* Character indices are 0-based as in the source, so the character at     *)
(* index i of a buffer b is b[i + 1].                                      *)
(*                                                                         *)
(* A usize that wrapped below zero is written as its two's complement      *)
(* reading (usize::MAX is -1): additions and the casts to i32 the source   *)
(* makes agree with that reading.                                          *)
(***************************************************************************)
EXTENDS Integers, Sequences, FiniteSets, TLC

VARIABLES
    text,         \* the text the caller hands to token_stream
    phase,        \* "input": the caller is preparing text; "done": a call returned or panicked
    mode,         \* IkTokenizer.mode of the last call
    letter,       \* GLOBAL_IK's LetterSegmenter fields
    quantifier,   \* GLOBAL_IK's CnQuantifierSegmenter fields
    ik_poisoned,  \* GLOBAL_IK's mutex was held by a call that panicked
    GLOBAL_DICT,  \* the loaded Dictionary
    call,         \* what the last token_stream call did (candidates, lexemes, tokens, panic)
    trie,         \* a Trie under test
    words,        \* ghost: the words inserted into trie and not deleted since
    trie_op,      \* the operation on trie whose result the caller holds
    trie_steps,   \* how many inserts and deletes trie has seen
    cross,        \* a cross group handed to IKArbitrator::judge
    judged,       \* what judge did with it
    util_op,      \* the call of a free-standing function whose result the caller holds
    threads,      \* per thread: where its token_stream call on the shared GLOBAL_IK stands
    ik_owner,     \* the thread holding the GLOBAL_IK mutex, 0 when it is free
    dict_owner,   \* the thread holding the GLOBAL_DICT mutex, 0 when it is free
    mutations,    \* how many add_words / disable_words calls GLOBAL_DICT has seen
    olist,        \* an OrderedLinkedList of lexemes under test: its nodes and its length field
    list_op,      \* the last call on olist and what it returned
    cross_op,     \* the last add_cross_lexeme call on a LexemePath under test
    noncross,     \* a LexemePath under test, built by add_not_cross_lexeme and remove_tail
    noncross_op,  \* the last call on noncross and what it returned
    judging,      \* a judge call in progress: its locals and where it stands
    stream,       \* an IkTokenStream: its tokens and its index
    stream_op     \* the last call on stream and what it returned

vars == <<text, phase, mode, letter, quantifier, ik_poisoned, GLOBAL_DICT, call,
          trie, words, trie_op, trie_steps, cross, judged,
          util_op, threads, ik_owner, dict_owner, mutations, olist, list_op, cross_op,
          noncross, noncross_op, judging, stream, stream_op>>

tokenizerVars == <<text, phase, mode, letter, quantifier, ik_poisoned, GLOBAL_DICT, call>>
trieVars == <<trie, words, trie_op, trie_steps>>
judgeVars == <<cross, judged>>
utilVars == <<util_op>>
threadVars == <<threads, ik_owner, dict_owner, mutations>>
listVars == <<olist, list_op, cross_op>>
optionVars == <<noncross, noncross_op, judging>>
streamVars == <<stream, stream_op>>

(***************************************************************************)
(* Bounds of the model.                                                    *)
(***************************************************************************)
\* longest text handed to token_stream
MaxLen == 3
\* longest word inserted into, deleted from or matched against the trie under test
MaxWord == 3
MaxTrieOps == 3
\* number of lexemes of a cross group handed to judge
MaxCross == 4
\* positions a cross group's lexemes lie in: 0 .. MaxPos
MaxPos == 5
\* longest string handed to regularize_str
MaxUtilLen == 2
\* number of threads calling token_stream
NumThreads == 2
\* number of add_words / disable_words calls another thread makes
MaxMutations == 1
\* number of advance calls made on a token stream after it has ended
MaxExtraAdvance == 2
\* number of lexemes inserted into the list under test
MaxList == 4
\* the lexemes of the list and the path under test lie in 0 .. MaxListPos
MaxListPos == 4

(***************************************************************************)
(* usize values.                                                           *)
(***************************************************************************)
\* usize::cmp on two's complement readings: a wrapped value is above every other
usize_cmp(a, b) ==
    IF (a < 0) = (b < 0)
    THEN (IF a < b THEN "Less" ELSE IF a > b THEN "Greater" ELSE "Equal")
    ELSE IF a < 0 THEN "Greater" ELSE "Less"

usize_lt(a, b) == usize_cmp(a, b) = "Less"

\* a + b on usize values does not fit: a panic in a build with overflow checks
usize_add_overflows(a, b) == (a < 0 \/ b < 0) /\ (a + b >= 0 \/ (a < 0 /\ b < 0))

(***************************************************************************)
(* Characters.                                                             *)
(***************************************************************************)
\* U+0061 'a', U+0031 '1', U+002E '.', U+4E00 (one, a Chinese numeral),
\* U+4E2A (ge, a quantifier), U+4E2D (zhong), U+FF21 (full-width 'A'),
\* U+2FE0 (a code point that belongs to no Unicode block)
Alphabet == {97, 49, 46, 19968, 20010, 20013, 65313, 12256}

SPECIAL_CHARS ==
    {33, 34, 35, 36, 37, 38, 40, 41, 43, 44, 45, 47, 59, 60, 61, 62, 63, 64, 91, 92,
     93, 94, 96, 123, 124, 125, 126, 165, 12289, 12290, 12298, 12299, 12300, 12301,
     12304, 12305, 65281, 65288, 65289, 65292, 65307, 65311, 65374}

\* unicode_blocks::find_unicode_block: the blocks char_type_of asks about, the
\* block of the ASCII characters, and the gap U+2FE0..U+2FEF that no block covers.
find_unicode_block(c) ==
    CASE c >= 0 /\ c <= 127         -> "BASIC_LATIN"
      [] c >= 128 /\ c <= 255       -> "LATIN_1_SUPPLEMENT"
      [] c >= 4352 /\ c <= 4607     -> "HANGUL_JAMO"
      [] c >= 12256 /\ c <= 12271   -> "None"
      [] c >= 12288 /\ c <= 12351   -> "CJK_SYMBOLS_AND_PUNCTUATION"
      [] c >= 12352 /\ c <= 12447   -> "HIRAGANA"
      [] c >= 12448 /\ c <= 12543   -> "KATAKANA"
      [] c >= 12592 /\ c <= 12687   -> "HANGUL_COMPATIBILITY_JAMO"
      [] c >= 12784 /\ c <= 12799   -> "KATAKANA_PHONETIC_EXTENSIONS"
      [] c >= 13312 /\ c <= 19903   -> "CJK_UNIFIED_IDEOGRAPHS_EXTENSION_A"
      [] c >= 19968 /\ c <= 40959   -> "CJK_UNIFIED_IDEOGRAPHS"
      [] c >= 44032 /\ c <= 55215   -> "HANGUL_SYLLABLES"
      [] c >= 63744 /\ c <= 64255   -> "CJK_COMPATIBILITY_IDEOGRAPHS"
      [] c >= 65280 /\ c <= 65519   -> "HALFWIDTH_AND_FULLWIDTH_FORMS"
      [] OTHER                      -> "OTHER_BLOCK"

\* char_type_of; "PANIC" is the unwrap of a block lookup that found no block
char_type_of(input) ==
    IF input >= 48 /\ input <= 57 THEN "ARABIC"
    ELSE IF (input >= 97 /\ input <= 122) \/ (input >= 65 /\ input <= 90) THEN "ENGLISH"
    ELSE IF input \in SPECIAL_CHARS THEN "SPECIAL"
    ELSE LET ub == find_unicode_block(input) IN
         IF ub = "None" THEN "PANIC"
         ELSE IF ub \in {"CJK_UNIFIED_IDEOGRAPHS", "CJK_COMPATIBILITY_IDEOGRAPHS",
                         "CJK_UNIFIED_IDEOGRAPHS_EXTENSION_A"} THEN "CHINESE"
         ELSE IF ub \in {"HALFWIDTH_AND_FULLWIDTH_FORMS", "HANGUL_SYLLABLES", "HANGUL_JAMO",
                         "HANGUL_COMPATIBILITY_JAMO", "HIRAGANA", "KATAKANA",
                         "KATAKANA_PHONETIC_EXTENSIONS"} THEN "OtherCjk"
         ELSE "USELESS"

\* regularize with the full-width rule subtracting 65216
regularize_wrong_shift(input) ==
    IF input = 12288 THEN input - 12256
    ELSE IF input >= 65281 /\ input <= 65374 THEN input - 65216
    ELSE IF input >= 65 /\ input <= 90 THEN input + 32
    ELSE input

\* regularize with the rules chained: half-width first, lowercase after
regularize_chained(input) ==
    IF input >= 65313 /\ input <= 65338 THEN input - 65248 + 32
    ELSE IF input = 12288 THEN input - 12256
    ELSE IF input >= 65281 /\ input <= 65374 THEN input - 65248
    ELSE IF input >= 65 /\ input <= 90 THEN input + 32
    ELSE input

\* full char -> half char && lowercase
regularize(input) ==
    IF input = 12288 THEN input - 12256
    ELSE IF input >= 65281 /\ input <= 65374 THEN input - 65248
    ELSE IF input >= 65 /\ input <= 90 THEN input + 32
    ELSE input

regularize_str(input) == [i \in 1..Len(input) |-> regularize(input[i])]

\* the UTF-8 bytes String::push appends for one char (code points below U+10000)
Utf8Encode(c) ==
    IF c < 128 THEN <<c>>
    ELSE IF c < 2048 THEN <<192 + (c \div 64), 128 + (c % 64)>>
    ELSE <<224 + (c \div 4096), 128 + ((c \div 64) % 64), 128 + (c % 64)>>

RECURSIVE Utf8String(_)
\* a str: the concatenated UTF-8 bytes of its chars
Utf8String(chars) ==
    IF Len(chars) = 0 THEN <<>>
    ELSE Utf8Encode(Head(chars)) \o Utf8String(Tail(chars))

RECURSIVE char_indices(_, _, _)
\* str::char_indices: the (byte offset, char) pairs of a str, in order
char_indices(chars, i, byte) ==
    IF i > Len(chars) THEN <<>>
    ELSE <<[pos |-> byte, ch |-> chars[i]]>>
         \o char_indices(chars, i + 1, byte + Len(Utf8Encode(chars[i])))

(***************************************************************************)
(* The prefix trie.  A node is named by the path of characters that leads  *)
(* to it from the root <<>>: nodes holds the paths that exist, final those *)
(* whose final_state flag is set.                                          *)
(***************************************************************************)
EmptyTrie == [nodes |-> {<<>>}, final |-> {}]

contains_key(t, node, c) == Append(node, c) \in t.nodes

has_childs(t, node) ==
    \E q \in t.nodes : Len(q) = Len(node) + 1 /\ SubSeq(q, 1, Len(node)) = node

is_final_state(t, node) == node \in t.final

add_child(t, node, c, final_state) ==
    [nodes |-> t.nodes \cup {Append(node, c)},
     final |-> IF final_state THEN t.final \cup {Append(node, c)}
               ELSE t.final \ {Append(node, c)}]

RECURSIVE exist_loop(_, _, _)
exist_loop(t, chars, idx) ==
    IF idx > Len(chars) THEN is_final_state(t, chars)
    ELSE IF ~contains_key(t, SubSeq(chars, 1, idx - 1), chars[idx]) THEN FALSE
    ELSE exist_loop(t, chars, idx + 1)

\* TrieNode::exist
exist(t, chars) == exist_loop(t, chars, 1)

RECURSIVE delete_loop(_, _, _)
delete_loop(t, chars, idx) ==
    IF idx > Len(chars) THEN [t EXCEPT !.final = @ \ {chars}]
    ELSE IF ~contains_key(t, SubSeq(chars, 1, idx - 1), chars[idx]) THEN t
    ELSE delete_loop(t, chars, idx + 1)

\* delete that also removes the node of the word when it is a leaf
delete_prune(t, chars) ==
    [nodes |-> IF has_childs(t, chars) THEN t.nodes ELSE t.nodes \ {chars},
     final |-> delete_loop(t, chars, 1).final]

\* TrieNode::delete: the trie it leaves (it always returns true)
delete(t, chars) == delete_loop(t, chars, 1)

RECURSIVE insert_loop(_, _, _, _)
\* the for loop of TrieNode::insert; idx is enumerate()'s index plus one
insert_loop(t, char_list, idx, final_state) ==
    IF idx > Len(char_list) THEN t
    ELSE LET current_node == SubSeq(char_list, 1, idx - 1)
             c == char_list[idx]
         IN IF ~contains_key(t, current_node, c)
            THEN LET fs == final_state \/ (idx - 1 = Len(char_list) - 1)
                 IN insert_loop(add_child(t, current_node, c, fs), char_list, idx + 1, fs)
            ELSE insert_loop(t, char_list, idx + 1, final_state)

\* TrieNode::insert
insert(t, chars) == insert_loop(t, chars, 1, FALSE)

Hit(begin, end, match, prefix) == [begin |-> begin, end |-> end, match |-> match, prefix |-> prefix]

is_match(hit) == hit.match

\* match_last_hit without the test of final_state: the hit is always a MATCH
match_last_hit_always_match(t, current_node, offset, end, hits) ==
    IF current_node # <<>>
    THEN Append(hits, Hit(offset, end, TRUE, has_childs(t, current_node)))
    ELSE hits

\* the hit pushed after the walk of match_with_offset, when the walk left the root
match_last_hit(t, current_node, offset, end, hits) ==
    IF current_node # <<>>
    THEN Append(hits, Hit(offset, end, is_final_state(t, current_node), has_childs(t, current_node)))
    ELSE hits

\* enumerate().skip(offset).take(length) is used up at index counter
match_done(char_list, offset, length, counter) ==
    \/ offset < 0
    \/ counter >= Len(char_list)
    \/ ~usize_lt(counter - offset, length)

RECURSIVE match_loop(_, _, _, _, _, _, _)
\* the for loop of match_with_offset over enumerate().skip(offset).take(length)
match_loop(t, char_list, offset, length, counter, current_node, hits) ==
    LET end == IF counter = offset THEN offset ELSE counter - 1 IN
    IF match_done(char_list, offset, length, counter)
    THEN match_last_hit(t, current_node, offset, end, hits)
    ELSE LET c == char_list[counter + 1] IN
         IF ~contains_key(t, current_node, c)
         THEN match_last_hit(t, current_node, offset, end, hits)
         ELSE match_loop(t, char_list, offset, length, counter + 1, Append(current_node, c),
                         IF is_final_state(t, current_node)
                         THEN Append(hits, Hit(offset, end, TRUE, has_childs(t, current_node)))
                         ELSE hits)

\* TrieNode::match_with_offset
match_with_offset(t, char_list, offset, length) ==
    IF ~usize_lt(Len(char_list), offset + length)
    THEN match_loop(t, char_list, offset, length, offset, <<>>, <<>>)
    ELSE <<>>

(***************************************************************************)
(* The dictionary: three tries, loaded from word lists.                    *)
(***************************************************************************)
\* the word list of the main dictionary: "one-ge", "ge-zhong", "one-ge-zhong",
\* "zhong-ge"
MainDictFile ==
    << <<19968, 20010>>, <<20010, 20013>>, <<19968, 20010, 20013>>, <<20013, 20010>> >>
\* the word list of the quantifier dictionary: "ge", "zhong", "zhong-ge"
QuantifierDictFile == << <<20010>>, <<20013>>, <<20013, 20010>> >>
\* the word lists of the stop-word dictionary: "a", "1-one"
StopWordDictFile == << <<97>>, <<49, 19968>> >>

RECURSIVE load_words(_, _, _)
\* the reader.lines() loop of the load_* functions
load_words(t, lines, i) ==
    IF i > Len(lines) THEN t
    ELSE load_words(insert(t, lines[i]), lines, i + 1)

\* Dictionary::default followed by Dictionary::load
load ==
    [main_dict       |-> load_words(EmptyTrie, MainDictFile, 1),
     stop_word_dict  |-> load_words(EmptyTrie, StopWordDictFile, 1),
     quantifier_dict |-> load_words(EmptyTrie, QuantifierDictFile, 1)]

RECURSIVE add_words(_, _, _)
\* Dictionary::add_words: the loop from word i of the Vec on
add_words(dict, word_list, i) ==
    IF i > Len(word_list) THEN dict
    ELSE add_words([dict EXCEPT !.main_dict = insert(@, word_list[i])], word_list, i + 1)

RECURSIVE disable_words(_, _, _)
\* Dictionary::disable_words: the loop from word i of the Vec on
disable_words(dict, word_list, i) ==
    IF i > Len(word_list) THEN dict
    ELSE disable_words([dict EXCEPT !.main_dict = delete(@, word_list[i])], word_list,
                       i + 1)

match_in_main_dict_with_offset(dict, word, offset, length) ==
    match_with_offset(dict.main_dict, word, offset, length)

match_in_quantifier_dict(dict, word, offset, length) ==
    match_with_offset(dict.quantifier_dict, word, offset, length)

\* is_stop_word without the test of the end of the hit
is_stop_word_any_match(dict, word, offset, length) ==
    LET hits == match_with_offset(dict.stop_word_dict, word, offset, length) IN
    \E i \in 1..Len(hits) : is_match(hits[i]) /\ hits[i].begin = offset

\* Dictionary::is_stop_word
is_stop_word(dict, word, offset, length) ==
    LET hits == match_with_offset(dict.stop_word_dict, word, offset, length) IN
    \E i \in 1..Len(hits) :
        is_match(hits[i]) /\ hits[i].begin = offset /\ hits[i].end = offset + length - 1

(***************************************************************************)
(* Lexemes and the ordered linked list.                                    *)
(***************************************************************************)
Lexeme(offset, begin, length, lexeme_type) ==
    [offset |-> offset, begin |-> begin, length |-> length, lexeme_type |-> lexeme_type,
     lexeme_text |-> <<>>]

get_begin_position(l) == l.offset + l.begin
get_end_position(l) == get_begin_position(l) + l.length

\* PartialEq for Lexeme
lexeme_eq(a, b) == a.offset = b.offset /\ a.begin = b.begin /\ a.length = b.length

\* Ord for Lexeme: "Less", "Equal" or "Greater"
lexeme_cmp(a, b) ==
    IF usize_cmp(a.begin, b.begin) # "Equal" THEN usize_cmp(a.begin, b.begin)
    ELSE usize_cmp(b.length, a.length)

RECURSIVE list_insert_walk(_, _, _)
\* the walk without the test for a node equal to data
list_insert_walk_keep_equal(list, data, i) ==
    IF i = 0 THEN list
    ELSE IF lexeme_cmp(list[i], data) = "Greater" THEN list_insert_walk(list, data, i - 1)
    ELSE SubSeq(list, 1, i) \o <<data>> \o SubSeq(list, i + 1, Len(list))

\* the tail-to-head walk of OrderedLinkedList::insert; i is the node looked at
list_insert_walk(list, data, i) ==
    IF i = 0 THEN list
    ELSE IF lexeme_cmp(list[i], data) = "Greater" THEN list_insert_walk(list, data, i - 1)
    ELSE IF lexeme_eq(list[i], data) THEN list
    ELSE SubSeq(list, 1, i) \o <<data>> \o SubSeq(list, i + 1, Len(list))

\* OrderedLinkedList::insert
list_insert(list, data) ==
    IF Len(list) = 0 THEN <<data>>
    ELSE IF lexeme_cmp(data, list[1]) = "Less" THEN <<data>> \o list
    ELSE IF lexeme_cmp(data, list[Len(list)]) = "Greater" THEN Append(list, data)
    ELSE list_insert_walk(list, data, Len(list))

\* OrderedLinkedList::insert with the length field: push_front and push_back
\* add one to it, the walk adds one when it splices a node in
OrderedLinkedList_insert(self, data) ==
    IF self.length = 0
    THEN [nodes |-> <<data>> \o self.nodes, length |-> self.length + 1]
    ELSE IF lexeme_cmp(data, self.nodes[1]) = "Less"
    THEN [nodes |-> <<data>> \o self.nodes, length |-> self.length + 1]
    ELSE IF lexeme_cmp(data, self.nodes[Len(self.nodes)]) = "Greater"
    THEN [nodes |-> Append(self.nodes, data), length |-> self.length + 1]
    ELSE IF list_insert_walk(self.nodes, data, self.length) = self.nodes
    THEN self
    ELSE [nodes |-> list_insert_walk(self.nodes, data, self.length),
          length |-> self.length + 1]

RECURSIVE list_insert_all(_, _, _)
\* a loop inserting every lexeme of a Vec into a list
list_insert_all(list, lexemes, i) ==
    IF i > Len(lexemes) THEN list
    ELSE list_insert_all(list_insert(list, lexemes[i]), lexemes, i + 1)

(***************************************************************************)
(* LetterSegmenter.  Each scan returns the lexemes it pushed and the       *)
(* segmenter's fields as it leaves them.  (char_count - 1) as i32 is -1    *)
(* for an empty buffer in a build without overflow checks; a build with    *)
(* them panics there (tokenize_panics).                                    *)
(***************************************************************************)
LETTER_CONNECTOR == {35, 38, 43, 45, 46, 64, 95}
NUM_CONNECTOR == {44, 46}

LetterSegmenter_new ==
    [start |-> -1, end |-> -1, english_start |-> -1, english_end |-> -1,
     arabic_start |-> -1, arabic_end |-> -1]

is_letter_connector(c) == c \in LETTER_CONNECTOR
is_num_connector(c) == c \in NUM_CONNECTOR

RECURSIVE english_loop(_, _, _, _, _)
english_loop(input, cursor, english_start, english_end, new_lexemes) ==
    IF cursor >= Len(input)
    THEN [start |-> english_start, end |-> english_end, lexemes |-> new_lexemes]
    ELSE LET curr_char_type == char_type_of(input[cursor + 1]) IN
         IF english_start = -1
         THEN IF curr_char_type = "ENGLISH"
              THEN english_loop(input, cursor + 1, cursor, cursor, new_lexemes)
              ELSE english_loop(input, cursor + 1, english_start, english_end, new_lexemes)
         ELSE IF curr_char_type = "ENGLISH"
              THEN english_loop(input, cursor + 1, english_start, cursor, new_lexemes)
              ELSE english_loop(input, cursor + 1, -1, -1,
                       Append(new_lexemes,
                              Lexeme(0, english_start, english_end - english_start + 1, "ENGLISH")))

\* the check after the loop of process_english_letter: r is the state the loop left
english_flush(self, char_count, r) ==
    IF r.end = char_count - 1
    THEN [lexemes |-> Append(r.lexemes, Lexeme(0, r.start, r.end - r.start + 1, "ENGLISH")),
          self |-> [self EXCEPT !.english_start = -1, !.english_end = -1]]
    ELSE [lexemes |-> r.lexemes,
          self |-> [self EXCEPT !.english_start = r.start, !.english_end = r.end]]

process_english_letter(self, input) ==
    english_flush(self, Len(input), english_loop(input, 0, self.english_start, self.english_end, <<>>))

RECURSIVE arabic_loop(_, _, _, _, _)
arabic_loop(chars, cursor, arabic_start, arabic_end, new_lexemes) ==
    IF cursor >= Len(chars)
    THEN [start |-> arabic_start, end |-> arabic_end, lexemes |-> new_lexemes]
    ELSE LET curr_char == chars[cursor + 1]
             curr_char_type == char_type_of(curr_char)
         IN
         IF arabic_start = -1
         THEN IF curr_char_type = "ARABIC"
              THEN arabic_loop(chars, cursor + 1, cursor, cursor, new_lexemes)
              ELSE arabic_loop(chars, cursor + 1, arabic_start, arabic_end, new_lexemes)
         ELSE IF curr_char_type = "ARABIC"
              THEN arabic_loop(chars, cursor + 1, arabic_start, cursor, new_lexemes)
              ELSE IF curr_char_type = "USELESS" /\ is_num_connector(curr_char)
              THEN arabic_loop(chars, cursor + 1, arabic_start, arabic_end, new_lexemes)
              ELSE arabic_loop(chars, cursor + 1, -1, -1,
                       Append(new_lexemes,
                              Lexeme(0, arabic_start, arabic_end - arabic_start + 1, "ARABIC")))

\* the check after the loop of process_arabic_letter: r is the state the loop left
arabic_flush(self, char_count, r) ==
    IF r.end = char_count - 1
    THEN [lexemes |-> Append(r.lexemes, Lexeme(0, r.start, r.end - r.start + 1, "ARABIC")),
          self |-> [self EXCEPT !.arabic_start = -1, !.arabic_end = -1]]
    ELSE [lexemes |-> r.lexemes,
          self |-> [self EXCEPT !.arabic_start = r.start, !.arabic_end = r.end]]

process_arabic_letter(self, chars) ==
    arabic_flush(self, Len(chars), arabic_loop(chars, 0, self.arabic_start, self.arabic_end, <<>>))

RECURSIVE mix_loop(_, _, _, _, _)
mix_loop(chars, cursor, start, end, new_lexemes) ==
    IF cursor >= Len(chars)
    THEN [start |-> start, end |-> end, lexemes |-> new_lexemes]
    ELSE LET curr_char == chars[cursor + 1]
             curr_char_type == char_type_of(curr_char)
         IN
         IF start = -1
         THEN IF curr_char_type = "ARABIC" \/ curr_char_type = "ENGLISH"
              THEN mix_loop(chars, cursor + 1, cursor, cursor, new_lexemes)
              ELSE mix_loop(chars, cursor + 1, start, end, new_lexemes)
         ELSE IF \/ curr_char_type = "ARABIC"
                 \/ curr_char_type = "ENGLISH"
                 \/ (curr_char_type = "USELESS" /\ is_letter_connector(curr_char))
              THEN mix_loop(chars, cursor + 1, start, cursor, new_lexemes)
              ELSE mix_loop(chars, cursor + 1, -1, -1,
                       Append(new_lexemes, Lexeme(0, start, end - start + 1, "LETTER")))

\* the check after the loop of process_mix_letter: r is the state the loop left
mix_flush(self, char_count, r) ==
    IF r.end = char_count - 1
    THEN [lexemes |-> Append(r.lexemes, Lexeme(0, r.start, r.end - r.start + 1, "LETTER")),
          self |-> [self EXCEPT !.start = -1, !.end = -1]]
    ELSE [lexemes |-> r.lexemes,
          self |-> [self EXCEPT !.start = r.start, !.end = r.end]]

process_mix_letter(self, chars) ==
    mix_flush(self, Len(chars), mix_loop(chars, 0, self.start, self.end, <<>>))

RECURSIVE process_special_letter(_, _)
\* the lexemes pushed from index cursor on
process_special_letter(chars, cursor) ==
    IF cursor >= Len(chars) THEN <<>>
    ELSE (IF char_type_of(chars[cursor + 1]) = "SPECIAL"
          THEN <<Lexeme(0, cursor, 1, "SPECIAL")>> ELSE <<>>)
         \o process_special_letter(chars, cursor + 1)

\* the lexemes of the four scans in order, and the fields each scan left
letter_collect(a, b, c, d) ==
    [lexemes |-> a.lexemes \o b.lexemes \o c.lexemes \o d,
     self |-> [start |-> c.self.start, end |-> c.self.end,
               english_start |-> a.self.english_start, english_end |-> a.self.english_end,
               arabic_start |-> b.self.arabic_start, arabic_end |-> b.self.arabic_end]]

\* LetterSegmenter::analyze (each scan reads and writes only its own two fields)
LetterSegmenter_analyze(self, input) ==
    letter_collect(process_english_letter(self, input), process_arabic_letter(self, input),
                   process_mix_letter(self, input), process_special_letter(input, 0))

(***************************************************************************)
(* CnQuantifierSegmenter.                                                  *)
(***************************************************************************)
chn_number_chars ==
    {19968, 19971, 19975, 19977, 20004, 20061, 20108, 20116, 20159, 20191, 20237, 20336,
     20740, 20806, 20843, 20845, 21313, 21315, 21317, 21441, 22235, 22777, 24319, 25342,
     25420, 26578, 29590, 30334, 32902, 33836, 36144, 38470, 38646}

CnQuantifierSegmenter_new == [n_start |-> -1, n_end |-> -1]

\* the first if/else of the loop body of process_cnumber: the state it leaves
cnumber_step(cursor, n_start, n_end, new_lexemes, is_cnumber) ==
    IF n_start = -1 /\ n_end = -1
    THEN IF is_cnumber
         THEN [n_start |-> cursor, n_end |-> cursor, lexemes |-> new_lexemes]
         ELSE [n_start |-> n_start, n_end |-> n_end, lexemes |-> new_lexemes]
    ELSE IF is_cnumber
         THEN [n_start |-> n_start, n_end |-> cursor, lexemes |-> new_lexemes]
         ELSE [n_start |-> -1, n_end |-> -1,
               lexemes |-> Append(new_lexemes, Lexeme(0, n_start, n_end - n_start + 1, "CNUM"))]

\* cnumber_flush leaving a run open at the end of the buffer
cnumber_flush_never(cursor, input_length, st) ==
    IF cursor = input_length - 1 /\ st.n_start # -1 /\ st.n_end # -1
    THEN st
    ELSE st

\* the second if of the loop body: the buffer is used up and a run is open
cnumber_flush(cursor, input_length, st) ==
    IF cursor = input_length - 1 /\ st.n_start # -1 /\ st.n_end # -1
    THEN [n_start |-> -1, n_end |-> -1,
          lexemes |-> Append(st.lexemes,
                             Lexeme(0, st.n_start, st.n_end - st.n_start + 1, "CNUM"))]
    ELSE st

is_cnumber_char(curr_char) ==
    char_type_of(curr_char) = "CHINESE" /\ curr_char \in chn_number_chars

RECURSIVE cnumber_loop(_, _, _)
\* the for loop of process_cnumber; st holds n_start, n_end and new_lexemes
cnumber_loop(input, cursor, st) ==
    IF cursor >= Len(input) THEN st
    ELSE cnumber_loop(input, cursor + 1,
             cnumber_flush(cursor, Len(input),
                 cnumber_step(cursor, st.n_start, st.n_end, st.lexemes,
                              is_cnumber_char(input[cursor + 1]))))

cnumber_result(r) ==
    [lexemes |-> r.lexemes, self |-> [n_start |-> r.n_start, n_end |-> r.n_end]]

process_cnumber(self, input) ==
    cnumber_result(cnumber_loop(input, 0,
        [n_start |-> self.n_start, n_end |-> self.n_end, lexemes |-> <<>>]))

RECURSIVE count_scan_walk(_, _, _)
\* the walk of need_count_scan from the tail of cnumber_list; i is the node looked at
count_scan_walk(cnumber_list, cursor, i) ==
    IF i = 0 THEN FALSE
    ELSE IF cnumber_list[i].lexeme_type = "CNUM" \/ cnumber_list[i].lexeme_type = "ARABIC"
         THEN IF cnumber_list[i].begin + cnumber_list[i].length = cursor THEN TRUE
              ELSE IF cnumber_list[i].begin + cnumber_list[i].length < cursor THEN FALSE
              ELSE count_scan_walk(cnumber_list, cursor, i - 1)
         ELSE count_scan_walk(cnumber_list, cursor, i - 1)

\* need_count_scan asking for a scan at every cursor
need_count_scan_always(self, cnumber_list, cursor) ==
    IF self.n_start # -1 /\ self.n_end # -1 THEN TRUE
    ELSE TRUE

\* CnQuantifierSegmenter::need_count_scan
need_count_scan(self, cnumber_list, cursor) ==
    IF self.n_start # -1 /\ self.n_end # -1 THEN TRUE
    ELSE IF Len(cnumber_list) # 0 THEN count_scan_walk(cnumber_list, cursor, Len(cnumber_list))
    ELSE FALSE

RECURSIVE match_lexemes(_, _, _)
\* for hit in hit_options.iter(): the lexemes pushed for the hits that match
match_lexemes(hit_options, i, lexeme_type) ==
    IF i > Len(hit_options) THEN <<>>
    ELSE (IF is_match(hit_options[i])
          THEN <<Lexeme(0, hit_options[i].begin,
                        hit_options[i].end - hit_options[i].begin + 1, lexeme_type)>>
          ELSE <<>>)
         \o match_lexemes(hit_options, i + 1, lexeme_type)

RECURSIVE process_count(_, _, _, _, _)
\* the lexemes pushed from index cursor on
process_count(self, dict, chars, cnumber_list, cursor) ==
    IF cursor >= Len(chars) THEN <<>>
    ELSE (IF /\ need_count_scan(self, cnumber_list, cursor)
             /\ char_type_of(chars[cursor + 1]) = "CHINESE"
          THEN match_lexemes(match_in_quantifier_dict(dict, chars, cursor, Len(chars) - cursor),
                             1, "COUNT")
          ELSE <<>>)
         \o process_count(self, dict, chars, cnumber_list, cursor + 1)

\* the lexemes of the two passes in order; a is what process_cnumber returned
quantifier_collect(a, b) == [lexemes |-> a.lexemes \o b, self |-> a.self]

\* the second half of analyze: cnumber_list is built and process_count runs
quantifier_count(dict, input, a) ==
    quantifier_collect(a, process_count(a.self, dict, input,
                                        list_insert_all(<<>>, a.lexemes, 1), 0))

\* CnQuantifierSegmenter::analyze
CnQuantifierSegmenter_analyze(self, dict, input) ==
    quantifier_count(dict, input, process_cnumber(self, input))

(***************************************************************************)
(* CJKSegmenter.                                                           *)
(***************************************************************************)
\* cjk_cursor pushing a lexeme for every hit, MATCH or not
cjk_cursor_all_hits(dict, chars, cursor) ==
    IF char_type_of(chars[cursor + 1]) # "USELESS"
    THEN LET hits == match_in_main_dict_with_offset(dict, chars, cursor, Len(chars) - cursor)
         IN [i \in 1..Len(hits) |->
                Lexeme(0, hits[i].begin, hits[i].end - hits[i].begin + 1, "CNWORD")]
    ELSE <<>>

\* one turn of the for loop of analyze: the lexemes pushed for index cursor
cjk_cursor(dict, chars, cursor) ==
    IF char_type_of(chars[cursor + 1]) # "USELESS"
    THEN match_lexemes(
             match_in_main_dict_with_offset(dict, chars, cursor, Len(chars) - cursor),
             1, "CNWORD")
    ELSE <<>>

RECURSIVE CJKSegmenter_analyze(_, _, _)
\* the lexemes pushed from index cursor on
CJKSegmenter_analyze(dict, chars, cursor) ==
    IF cursor >= Len(chars) THEN <<>>
    ELSE cjk_cursor(dict, chars, cursor) \o CJKSegmenter_analyze(dict, chars, cursor + 1)
(***************************************************************************)
(* LexemePath.                                                             *)
(***************************************************************************)
LexemePath_new == [path_begin |-> -1, path_end |-> -1, payload_length |-> 0, lexeme_list |-> <<>>]

\* check_cross with the first test only: the lexeme begins inside the span
check_cross_begin_inside(self, lexeme) ==
    lexeme.begin >= self.path_begin /\ lexeme.begin < self.path_end

\* LexemePath::check_cross
check_cross(self, lexeme) ==
    LET l_begin == lexeme.begin
        l_length == lexeme.length
    IN \/ (l_begin >= self.path_begin /\ l_begin < self.path_end)
       \/ (self.path_begin >= l_begin /\ self.path_begin < l_begin + l_length)

\* LexemePath::add_cross_lexeme: whether it added, and the path it leaves
add_cross_lexeme(self, lexeme) ==
    IF Len(self.lexeme_list) = 0
    THEN [ok |-> TRUE,
          path |-> [path_begin |-> lexeme.begin,
                    path_end |-> lexeme.begin + lexeme.length,
                    payload_length |-> self.payload_length + lexeme.length,
                    lexeme_list |-> list_insert(self.lexeme_list, lexeme)]]
    ELSE IF check_cross(self, lexeme)
    THEN LET path_end == IF lexeme.begin + lexeme.length > self.path_end
                         THEN lexeme.begin + lexeme.length ELSE self.path_end
         IN [ok |-> TRUE,
             path |-> [path_begin |-> self.path_begin,
                       path_end |-> path_end,
                       payload_length |-> path_end - self.path_begin,
                       lexeme_list |-> list_insert(self.lexeme_list, lexeme)]]
    ELSE [ok |-> FALSE, path |-> self]

\* the path whose lexeme list became list after an insert of a lexeme of length l_length
path_of_list(self, list, l_length) ==
    [path_begin |-> list[1].begin,
     path_end |-> list[Len(list)].begin + list[Len(list)].length,
     payload_length |-> self.payload_length + l_length,
     lexeme_list |-> list]

\* add_not_cross_lexeme without the check_cross test: every lexeme is added
add_not_cross_lexeme_any(self, lexeme) ==
    IF Len(self.lexeme_list) = 0
    THEN [ok |-> TRUE,
          path |-> [path_begin |-> lexeme.begin,
                    path_end |-> lexeme.begin + lexeme.length,
                    payload_length |-> self.payload_length + lexeme.length,
                    lexeme_list |-> list_insert(self.lexeme_list, lexeme)]]
    ELSE [ok |-> TRUE,
          path |-> path_of_list(self, list_insert(self.lexeme_list, lexeme), lexeme.length)]

\* LexemePath::add_not_cross_lexeme: whether it added, and the path it leaves
add_not_cross_lexeme(self, lexeme) ==
    IF Len(self.lexeme_list) = 0
    THEN [ok |-> TRUE,
          path |-> [path_begin |-> lexeme.begin,
                    path_end |-> lexeme.begin + lexeme.length,
                    payload_length |-> self.payload_length + lexeme.length,
                    lexeme_list |-> list_insert(self.lexeme_list, lexeme)]]
    ELSE IF check_cross(self, lexeme)
    THEN [ok |-> FALSE, path |-> self]
    ELSE [ok |-> TRUE,
          path |-> path_of_list(self, list_insert(self.lexeme_list, lexeme), lexeme.length)]

\* remove_tail that leaves path_end where it was
remove_tail_keep_end(self) ==
    IF Len(self.lexeme_list) <= 1 THEN LexemePath_new
    ELSE [path_begin |-> self.path_begin,
          path_end |-> self.path_end,
          payload_length |-> self.payload_length - self.lexeme_list[Len(self.lexeme_list)].length,
          lexeme_list |-> SubSeq(self.lexeme_list, 1, Len(self.lexeme_list) - 1)]

\* LexemePath::remove_tail: the path it leaves
remove_tail(self) ==
    IF Len(self.lexeme_list) = 0 THEN LexemePath_new
    ELSE LET tail == self.lexeme_list[Len(self.lexeme_list)]
             list == SubSeq(self.lexeme_list, 1, Len(self.lexeme_list) - 1)
         IN IF Len(list) = 0 THEN LexemePath_new
            ELSE [path_begin |-> self.path_begin,
                  path_end |-> list[Len(list)].begin + list[Len(list)].length,
                  payload_length |-> self.payload_length - tail.length,
                  lexeme_list |-> list]

get_path_length(self) == self.path_end - self.path_begin

RECURSIVE xweight_loop(_, _)
xweight_loop(list, i) ==
    IF i > Len(list) THEN 1 ELSE list[i].length * xweight_loop(list, i + 1)

\* X weight: the product of the lexeme lengths
get_xweight(self) == xweight_loop(self.lexeme_list, 1)

RECURSIVE pweight_loop(_, _)
pweight_loop(list, p) ==
    IF p > Len(list) THEN 0 ELSE p * list[p].length + pweight_loop(list, p + 1)

\* P weight: the sum of position * length
get_pweight(self) == pweight_loop(self.lexeme_list, 1)

size(self) == Len(self.lexeme_list)

\* i32::cmp
int_cmp(a, b) == IF a < b THEN "Less" ELSE IF a > b THEN "Greater" ELSE "Equal"

reverse(o) == IF o = "Less" THEN "Greater" ELSE IF o = "Greater" THEN "Less" ELSE "Equal"

\* partial_cmp preferring the path that ends first
path_cmp_front_end(self, other) ==
    LET c1 == usize_cmp(self.payload_length, other.payload_length)
        c2 == int_cmp(size(self), size(other))
        c3 == usize_cmp(get_path_length(self), get_path_length(other))
        c4 == int_cmp(self.path_end, other.path_end)
        c5 == int_cmp(get_xweight(self), get_xweight(other))
    IN IF c1 # "Equal" THEN reverse(c1)
       ELSE IF c2 # "Equal" THEN c2
       ELSE IF c3 # "Equal" THEN reverse(c3)
       ELSE IF c4 # "Equal" THEN c4
       ELSE IF c5 # "Equal" THEN reverse(c5)
       ELSE int_cmp(get_pweight(other), get_pweight(self))

\* partial_cmp preferring the path of more lexemes
path_cmp_more_lexemes(self, other) ==
    LET c1 == usize_cmp(self.payload_length, other.payload_length)
        c2 == int_cmp(size(self), size(other))
        c3 == usize_cmp(get_path_length(self), get_path_length(other))
        c4 == int_cmp(self.path_end, other.path_end)
        c5 == int_cmp(get_xweight(self), get_xweight(other))
    IN IF c1 # "Equal" THEN reverse(c1)
       ELSE IF c2 # "Equal" THEN reverse(c2)
       ELSE IF c3 # "Equal" THEN reverse(c3)
       ELSE IF c4 # "Equal" THEN reverse(c4)
       ELSE IF c5 # "Equal" THEN reverse(c5)
       ELSE int_cmp(get_pweight(other), get_pweight(self))

\* partial_cmp preferring the smaller P-weight
path_cmp_small_pweight(self, other) ==
    LET c1 == usize_cmp(self.payload_length, other.payload_length)
        c2 == int_cmp(size(self), size(other))
        c3 == usize_cmp(get_path_length(self), get_path_length(other))
        c4 == int_cmp(self.path_end, other.path_end)
        c5 == int_cmp(get_xweight(self), get_xweight(other))
    IN IF c1 # "Equal" THEN reverse(c1)
       ELSE IF c2 # "Equal" THEN c2
       ELSE IF c3 # "Equal" THEN reverse(c3)
       ELSE IF c4 # "Equal" THEN reverse(c4)
       ELSE IF c5 # "Equal" THEN reverse(c5)
       ELSE int_cmp(get_pweight(self), get_pweight(other))

\* PartialOrd for LexemePath: the better path is "Less"
path_cmp(self, other) ==
    LET c1 == usize_cmp(self.payload_length, other.payload_length)
        c2 == int_cmp(size(self), size(other))
        c3 == usize_cmp(get_path_length(self), get_path_length(other))
        c4 == int_cmp(self.path_end, other.path_end)
        c5 == int_cmp(get_xweight(self), get_xweight(other))
    IN IF c1 # "Equal" THEN reverse(c1)
       ELSE IF c2 # "Equal" THEN c2
       ELSE IF c3 # "Equal" THEN reverse(c3)
       ELSE IF c4 # "Equal" THEN reverse(c4)
       ELSE IF c5 # "Equal" THEN reverse(c5)
       ELSE int_cmp(get_pweight(other), get_pweight(self))

(***************************************************************************)
(* IKArbitrator.  A node of a lexeme list is named by its index in it.     *)
(***************************************************************************)
RECURSIVE forward_loop(_, _, _, _)
\* one turn of the while loop of forward_path; r is what add_not_cross_lexeme returned
forward_step(list, cur, conflict_stack, r) ==
    forward_loop(list, cur + 1, r.path,
                 IF r.ok THEN conflict_stack ELSE Append(conflict_stack, cur))

forward_loop(list, cur, option_path, conflict_stack) ==
    IF cur > Len(list) THEN [stack |-> conflict_stack, option |-> option_path]
    ELSE forward_step(list, cur, conflict_stack, add_not_cross_lexeme(option_path, list[cur]))

\* IKArbitrator::forward_path from node cur_node (0: None)
forward_path(list, cur_node, option_path) ==
    IF cur_node = 0 THEN [stack |-> <<>>, option |-> option_path]
    ELSE forward_loop(list, cur_node, option_path, <<>>)

RECURSIVE back_path(_, _)
\* IKArbitrator::back_path: the option path it leaves
back_path(lexeme, option) ==
    IF check_cross(option, lexeme) THEN back_path(lexeme, remove_tail(option)) ELSE option

\* BTreeSet::insert under LexemePath's Ord, the set kept as its ascending sequence
btree_insert(set, path) ==
    IF \E i \in 1..Len(set) : path_cmp(path, set[i]) = "Equal" THEN set
    ELSE LET k == Cardinality({i \in 1..Len(set) : path_cmp(set[i], path) = "Less"})
         IN SubSeq(set, 1, k) \o <<path>> \o SubSeq(set, k + 1, Len(set))

RECURSIVE judge_loop(_, _, _, _, _)
\* one turn of the while loop of judge; option is the path forward_path left
judge_step(list, lexeme_stack, path_options, recorded, option) ==
    judge_loop(list, SubSeq(lexeme_stack, 1, Len(lexeme_stack) - 1), option,
               btree_insert(path_options, option), Append(recorded, option))

\* the while loop of judge; recorded lists every option path inserted, in order
judge_loop(list, lexeme_stack, option_path, path_options, recorded) ==
    IF Len(lexeme_stack) = 0
    THEN [path_options |-> path_options, recorded |-> recorded]
    ELSE judge_step(list, lexeme_stack, path_options, recorded,
                    forward_path(list, lexeme_stack[Len(lexeme_stack)],
                                 back_path(list[lexeme_stack[Len(lexeme_stack)]],
                                           option_path)).option)

\* judge_result taking the last of path_options
judge_result_last(first, r) ==
    [result |-> r.path_options[Len(r.path_options)], recorded |-> r.recorded,
     lexeme_stack |-> first.stack]

\* what judge returns: the first of path_options, with the option paths it
\* recorded and the conflict stack of the first pass
judge_result(first, r) ==
    [result |-> r.path_options[1], recorded |-> r.recorded, lexeme_stack |-> first.stack]

\* the second half of judge; first is what the first forward_path left
judge_rest(list, first) ==
    judge_result(first, judge_loop(list, first.stack, first.option,
                                   <<first.option>>, <<first.option>>))

\* IKArbitrator::judge on the lexeme list of a cross path
judge(list) ==
    judge_rest(list, forward_path(list, IF Len(list) = 0 THEN 0 ELSE 1, LexemePath_new))

\* HashMap::insert
map_insert(map, key, value) ==
    [k \in DOMAIN map \cup {key} |-> IF k = key THEN value ELSE map[k]]

\* path_map.insert(path.path_begin, path)
map_insert_path(path_map, path) == map_insert(path_map, path.path_begin, path)

\* resolve without the call of judge: the cross path is kept in either mode
resolve_keep_cross(path_map, cross_path, token_mode) ==
    map_insert_path(path_map, cross_path)

\* the path process stores for a finished cross path, under its key
resolve(path_map, cross_path, token_mode) ==
    IF size(cross_path) = 1 \/ ~(token_mode = "SEARCH")
    THEN map_insert_path(path_map, cross_path)
    ELSE map_insert_path(path_map, judge(cross_path.lexeme_list).result)

RECURSIVE process_loop(_, _, _, _, _)
\* process_step whose new cross path starts empty, without the lexeme that failed
process_step_lose_lexeme(org_lexemes, cur_node, token_mode, path_map, cross_path, r) ==
    IF ~r.ok
    THEN process_loop(org_lexemes, cur_node + 1, token_mode,
                      resolve(path_map, cross_path, token_mode), LexemePath_new)
    ELSE process_loop(org_lexemes, cur_node + 1, token_mode, path_map, r.path)

\* one turn of the while loop of process; r is what add_cross_lexeme returned
process_step(org_lexemes, cur_node, token_mode, path_map, cross_path, r) ==
    IF ~r.ok
    THEN process_loop(org_lexemes, cur_node + 1, token_mode,
                      resolve(path_map, cross_path, token_mode),
                      add_cross_lexeme(LexemePath_new, org_lexemes[cur_node]).path)
    ELSE process_loop(org_lexemes, cur_node + 1, token_mode, path_map, r.path)

process_loop(org_lexemes, cur_node, token_mode, path_map, cross_path) ==
    IF cur_node > Len(org_lexemes) THEN resolve(path_map, cross_path, token_mode)
    ELSE process_step(org_lexemes, cur_node, token_mode, path_map, cross_path,
                      add_cross_lexeme(cross_path, org_lexemes[cur_node]))

\* IKArbitrator::process
process(org_lexemes, token_mode) ==
    process_loop(org_lexemes, 1, token_mode, <<>>, LexemePath_new)
(***************************************************************************)
(* IKSegmenter: the assembler, compounding and the stop-word filter.       *)
(***************************************************************************)
\* single_char_lexeme without the OtherCjk branch
single_char_lexeme_chinese_only(input, index) ==
    IF char_type_of(input[index + 1]) = "CHINESE" THEN <<Lexeme(0, index, 1, "CNCHAR")>>
    ELSE <<>>

\* the single-character lexeme pushed for an uncovered position, if any
single_char_lexeme(input, index) ==
    LET cur_char_type == char_type_of(input[index + 1]) IN
    IF cur_char_type = "CHINESE" THEN <<Lexeme(0, index, 1, "CNCHAR")>>
    ELSE IF cur_char_type = "OtherCjk" THEN <<Lexeme(0, index, 1, "OtherCJK")>>
    ELSE <<>>

RECURSIVE gap_loop(_, _, _, _)
\* while index < new_l_value.get_begin(); input[index] past the buffer panics
gap_loop(input, index, new_begin, results) ==
    IF ~usize_lt(index, new_begin)
    THEN [results |-> results, index |-> index, panicked |-> FALSE]
    ELSE IF ~usize_lt(index, Len(input))
    THEN [results |-> results, index |-> index, panicked |-> TRUE]
    ELSE gap_loop(input, index + 1, new_begin, results \o single_char_lexeme(input, index))

RECURSIVE drain_loop(_, _, _)
\* the rest of a turn of the inner loop; g is what the gap loop left
drain_step(list, input, g) ==
    IF g.panicked THEN g ELSE drain_loop(Tail(list), input, g.results)

\* drain_loop with results.push_front in place of results.push_back
drain_loop_push_front(list, input, results) ==
    IF Len(list) = 1
    THEN [results |-> <<list[1]>> \o results, index |-> list[1].begin + list[1].length,
          panicked |-> FALSE]
    ELSE drain_step(list, input,
                    gap_loop(input, list[1].begin + list[1].length, list[2].begin,
                             <<list[1]>> \o results))

\* while l.is_some(), on a path that holds lexemes
drain_loop(list, input, results) ==
    IF Len(list) = 1
    THEN [results |-> Append(results, list[1]), index |-> list[1].begin + list[1].length,
          panicked |-> FALSE]
    ELSE drain_step(list, input,
                    gap_loop(input, list[1].begin + list[1].length, list[2].begin,
                             Append(results, list[1])))

RECURSIVE output_loop(_, _, _, _)
\* the rest of a turn of the outer loop; d is what the inner loop left
output_step(path_map, input, index, d) ==
    IF d.panicked THEN [results |-> d.results, panicked |-> TRUE, hung |-> FALSE]
    ELSE output_loop([path_map EXCEPT ![index].lexeme_list = <<>>], input, d.index, d.results)

\* while index < char_count; hung: index stays on a path already drained
output_loop(path_map, input, index, results) ==
    IF ~usize_lt(index, Len(input))
    THEN [results |-> results, panicked |-> FALSE, hung |-> FALSE]
    ELSE IF char_type_of(input[index + 1]) = "USELESS"
    THEN output_loop(path_map, input, index + 1, results)
    ELSE IF index \in DOMAIN path_map
    THEN IF Len(path_map[index].lexeme_list) = 0
         THEN [results |-> results, panicked |-> FALSE, hung |-> TRUE]
         ELSE output_step(path_map, input, index,
                          drain_loop(path_map[index].lexeme_list, input, results))
    ELSE output_loop(path_map, input, index + 1, results \o single_char_lexeme(input, index))

\* IKSegmenter::output_to_result
output_to_result(path_map, input) == output_loop(path_map, input, 0, <<>>)

\* append without the adjacency test
lexeme_append_any(self, l, lexeme_type) ==
    [ok |-> TRUE,
     lexeme |-> [self EXCEPT !.length = self.length + l.length,
                             !.lexeme_type = lexeme_type]]

\* Lexeme::append: whether it merged, and the lexeme it leaves
lexeme_append(self, l, lexeme_type) ==
    IF get_end_position(self) = get_begin_position(l)
    THEN [ok |-> TRUE,
          lexeme |-> [self EXCEPT !.length = self.length + l.length,
                                  !.lexeme_type = lexeme_type]]
    ELSE [ok |-> FALSE, lexeme |-> self]

\* the second merge of compound: a CNUM result followed by a COUNT
compound_count(results, result) ==
    IF result.lexeme_type = "CNUM" /\ Len(results) # 0
    THEN IF results[1].lexeme_type = "COUNT" /\ lexeme_append(result, results[1], "CQUAN").ok
         THEN [results |-> Tail(results),
               result |-> lexeme_append(result, results[1], "CQUAN").lexeme]
         ELSE [results |-> results, result |-> result]
    ELSE [results |-> results, result |-> result]

\* the first merge of compound: an ARABIC result followed by a CNUM or a COUNT
compound_arabic(results, result, a) ==
    compound_count(IF a.ok THEN Tail(results) ELSE results, a.lexeme)

\* IKSegmenter::compound: the list and the lexeme it leaves
compound(results, result) ==
    IF Len(results) = 0 THEN [results |-> results, result |-> result]
    ELSE compound_arabic(results, result,
             IF result.lexeme_type = "ARABIC" /\ results[1].lexeme_type = "CNUM"
             THEN lexeme_append(result, results[1], "CNUM")
             ELSE IF result.lexeme_type = "ARABIC" /\ results[1].lexeme_type = "COUNT"
             THEN lexeme_append(result, results[1], "CQUAN")
             ELSE [ok |-> FALSE, lexeme |-> result])

\* utf8_slice taking the slice from the start of the str
utf8_slice_from_start(s, begin, end) ==
    IF usize_lt(end, begin) THEN <<>>
    ELSE IF ~usize_lt(begin, Len(s)) THEN <<>>
    ELSE IF ~usize_lt(end, Len(s)) THEN s
    ELSE SubSeq(s, 1, end)

\* char_util::utf8_slice, on the chars of the str
utf8_slice(s, begin, end) ==
    IF usize_lt(end, begin) THEN <<>>
    ELSE IF ~usize_lt(begin, Len(s)) THEN <<>>
    ELSE IF ~usize_lt(end, Len(s)) THEN SubSeq(s, begin + 1, Len(s))
    ELSE SubSeq(s, begin + 1, end)

parse_lexeme_text(self, input) ==
    [self EXCEPT !.lexeme_text = utf8_slice(input, self.begin, self.begin + self.length)]

RECURSIVE filter_loop(_, _, _, _, _, _)
\* filter_step with the stop-word test inverted
filter_step_inverted(dict, input, token_mode, compounded, final_results, c) ==
    filter_loop(dict, input, token_mode, c.results, Append(compounded, c.result),
                IF is_stop_word(dict, input, c.result.begin, c.result.length)
                THEN Append(final_results, parse_lexeme_text(c.result, input))
                ELSE final_results)

\* the rest of a turn of the loop; c is the list and the result_value compound left
filter_step(dict, input, token_mode, compounded, final_results, c) ==
    filter_loop(dict, input, token_mode, c.results, Append(compounded, c.result),
                IF ~is_stop_word(dict, input, c.result.begin, c.result.length)
                THEN Append(final_results, parse_lexeme_text(c.result, input))
                ELSE final_results)

\* while let Some(result_value) = results.pop_front(); compounded lists every
\* result_value as it stands when the stop-word test is made
filter_loop(dict, input, token_mode, results, compounded, final_results) ==
    IF Len(results) = 0 THEN [compounded |-> compounded, final_results |-> final_results]
    ELSE filter_step(dict, input, token_mode, compounded, final_results,
                     IF token_mode = "SEARCH" THEN compound(Tail(results), Head(results))
                     ELSE [results |-> Tail(results), result |-> Head(results)])

\* the calls of tokenize that panic before anything is returned: char_count - 1
\* on an empty buffer in a build with overflow checks, and char_type_of on a
\* character of no Unicode block (the first scan classifies every character)
tokenize_panics(chars, overflow_checks) ==
    \/ (Len(chars) = 0 /\ overflow_checks)
    \/ \E i \in 1..Len(chars) : char_type_of(chars[i]) = "PANIC"

collect_lexemes(l, q, c) ==
    [origin_lexemes |->
         list_insert_all(list_insert_all(list_insert_all(<<>>, l.lexemes, 1),
                                         q.lexemes, 1), c, 1),
     segmented |-> l.lexemes \o q.lexemes \o c,
     letter |-> l.self, quantifier |-> q.self]

\* the for loop of tokenize over the three sub-segmenters
run_segmenters(letter_seg, quantifier_seg, dict, chars) ==
    collect_lexemes(LetterSegmenter_analyze(letter_seg, chars),
                    CnQuantifierSegmenter_analyze(quantifier_seg, dict, chars),
                    CJKSegmenter_analyze(dict, chars, 0))

\* what tokenize leaves: s from the segmenters, out from the assembler, f from the filter
tokenize_result(s, out, f) ==
    IF out.panicked \/ out.hung
    THEN [panicked |-> out.panicked, hung |-> out.hung, letter |-> s.letter,
          quantifier |-> s.quantifier, origin_lexemes |-> s.origin_lexemes,
          segmented |-> s.segmented,
          assembled |-> <<>>, compounded |-> <<>>, final_results |-> <<>>]
    ELSE [panicked |-> FALSE, hung |-> FALSE, letter |-> s.letter,
          quantifier |-> s.quantifier, origin_lexemes |-> s.origin_lexemes,
          segmented |-> s.segmented,
          assembled |-> out.results, compounded |-> f.compounded,
          final_results |-> f.final_results]

\* the compounding and stop-word loop of tokenize, on what the assembler left
tokenize_filter(dict, input, token_mode, s, out) ==
    tokenize_result(s, out, filter_loop(dict, input, token_mode, out.results, <<>>, <<>>))

\* lexeme.get_begin() + lexeme.get_length(), which add_cross_lexeme computes for
\* every lexeme of origin_lexemes, does not fit a usize
process_overflows(org_lexemes) ==
    \E i \in 1..Len(org_lexemes) :
        usize_add_overflows(org_lexemes[i].begin, org_lexemes[i].length)

\* the arbitration and assembly of tokenize, on what the segmenters left
tokenize_arbitrate(dict, input, token_mode, overflow_checks, s) ==
    IF overflow_checks /\ process_overflows(s.origin_lexemes)
    THEN [panicked |-> TRUE, hung |-> FALSE, letter |-> s.letter,
          quantifier |-> s.quantifier, origin_lexemes |-> s.origin_lexemes,
          segmented |-> s.segmented,
          assembled |-> <<>>, compounded |-> <<>>, final_results |-> <<>>]
    ELSE tokenize_filter(dict, input, token_mode, s,
                         output_to_result(process(s.origin_lexemes, token_mode), input))

\* IKSegmenter::tokenize
tokenize(letter_seg, quantifier_seg, dict, input, token_mode, overflow_checks) ==
    IF tokenize_panics(input, overflow_checks)
    THEN [panicked |-> TRUE, hung |-> FALSE, letter |-> letter_seg,
          quantifier |-> quantifier_seg, origin_lexemes |-> <<>>, segmented |-> <<>>,
          assembled |-> <<>>,
          compounded |-> <<>>, final_results |-> <<>>]
    ELSE tokenize_arbitrate(dict, input, token_mode, overflow_checks,
                            run_segmenters(letter_seg, quantifier_seg, dict, input))

(***************************************************************************)
(* IkTokenizer::token_stream.                                              *)
(***************************************************************************)
\* text.char_indices() with the (text.len(), '\0') entry pushed
index_table(regular_str) ==
    char_indices(regular_str, 1, 0) \o <<[pos |-> Len(Utf8String(regular_str)), ch |-> 0]>>

\* the Token pushed for one lexeme
make_token(indices, bytes, token) ==
    [offset_from |-> indices[get_begin_position(token) + 1].pos,
     offset_to |-> indices[get_end_position(token) + 1].pos,
     position |-> token.begin,
     text |-> SubSeq(bytes, indices[get_begin_position(token) + 1].pos + 1,
                     indices[get_end_position(token) + 1].pos),
     position_length |-> token.length]

\* the calls that panic while the Token is built: indices[..] out of range for
\* this lexeme, or a str slice whose start is past its end
token_panics(indices, token) ==
    \/ get_begin_position(token) < 0 \/ get_begin_position(token) >= Len(indices)
    \/ get_end_position(token) < 0 \/ get_end_position(token) >= Len(indices)
    \/ indices[get_begin_position(token) + 1].pos > indices[get_end_position(token) + 1].pos

NoCall ==
    [returned |-> FALSE, panicked |-> FALSE, hung |-> FALSE, regular_str |-> <<>>,
     origin_lexemes |-> <<>>, segmented |-> <<>>, assembled |-> <<>>, compounded |-> <<>>,
     orig_tokens |-> <<>>, tokens |-> <<>>]

\* the loop of token_stream over the lexemes tokenize returned in t
collect_tokens(regular_str, indices, bytes, t, oob) ==
    [call |->
         [returned |-> ~(t.panicked \/ t.hung \/ oob),
          panicked |-> t.panicked \/ (~t.hung /\ oob),
          hung |-> t.hung,
          regular_str |-> regular_str,
          origin_lexemes |-> t.origin_lexemes,
          segmented |-> t.segmented,
          assembled |-> t.assembled,
          compounded |-> t.compounded,
          orig_tokens |-> t.final_results,
          tokens |-> IF t.panicked \/ t.hung \/ oob THEN <<>>
                     ELSE [i \in 1..Len(t.final_results) |->
                              make_token(indices, bytes, t.final_results[i])]],
     letter |-> t.letter, quantifier |-> t.quantifier, poisoned |-> t.panicked]

\* whether indices[..] is out of range for one of the lexemes
tokens_panic(indices, final_results) ==
    \E i \in 1..Len(final_results) : token_panics(indices, final_results[i])

\* token_stream once tokenize has returned t (or panicked under the lock)
token_stream_tokens(regular_str, indices, bytes, t) ==
    collect_tokens(regular_str, indices, bytes, t, tokens_panic(indices, t.final_results))

\* token_stream on the regularized text
token_stream_regular(letter_seg, quantifier_seg, poisoned, dict, regular_str, token_mode, overflow_checks) ==
    IF poisoned
    THEN [call |-> [NoCall EXCEPT !.panicked = TRUE, !.regular_str = regular_str],
          letter |-> letter_seg, quantifier |-> quantifier_seg, poisoned |-> TRUE]
    ELSE token_stream_tokens(regular_str, index_table(regular_str), Utf8String(regular_str),
                             tokenize(letter_seg, quantifier_seg, dict, regular_str,
                                      token_mode, overflow_checks))

\* what a token_stream call does: the call record, the segmenter it leaves and
\* whether it leaves GLOBAL_IK poisoned
token_stream(letter_seg, quantifier_seg, poisoned, dict, input_text, token_mode, overflow_checks) ==
    token_stream_regular(letter_seg, quantifier_seg, poisoned, dict,
                         regularize_str(input_text), token_mode, overflow_checks)

(***************************************************************************)
(* The tokenizer as a state machine: a caller prepares a text, calls       *)
(* token_stream on the shared GLOBAL_IK, and goes on to the next call.     *)
(***************************************************************************)
TokenModes == {"INDEX", "SEARCH"}

Init ==
    /\ text = <<>>
    /\ phase = "input"
    /\ mode = "INDEX"
    /\ letter = LetterSegmenter_new
    /\ quantifier = CnQuantifierSegmenter_new
    /\ ik_poisoned = FALSE
    /\ GLOBAL_DICT = load
    /\ call = NoCall
    /\ trie = EmptyTrie
    /\ words = {}
    /\ trie_op = [op |-> "idle"]
    /\ trie_steps = 0
    /\ cross = LexemePath_new
    /\ judged = [done |-> FALSE]
    /\ util_op = [op |-> "idle"]
    /\ threads = [t \in 1..NumThreads |-> [pc |-> "idle"]]
    /\ ik_owner = 0
    /\ dict_owner = 0
    /\ mutations = 0
    /\ olist = [nodes |-> <<>>, length |-> 0]
    /\ list_op = [op |-> "new"]
    /\ cross_op = [op |-> "new"]
    /\ noncross = LexemePath_new
    /\ noncross_op = [op |-> "new"]
    /\ judging = [pc |-> "idle"]
    /\ stream = [tokens |-> <<>>, index |-> 0]
    /\ stream_op = [op |-> "new"]

\* the caller extends the text it is about to hand over by one character
PrepareText(c) ==
    /\ phase = "input"
    /\ Len(text) < MaxLen
    /\ text' = Append(text, c)
    /\ UNCHANGED <<phase, mode, letter, quantifier, ik_poisoned, GLOBAL_DICT, call>>
    /\ UNCHANGED <<trieVars, judgeVars, listVars, optionVars, streamVars, utilVars, threadVars>>

\* BoxTokenStream::from(IkTokenStream { tokens, index: 0 })
IkTokenStream_from(tokens) == [tokens |-> tokens, index |-> 0]

\* IkTokenStream::advance moving the index whenever it is not past the end
IkTokenStream_advance_to_end(self) ==
    IF self.index <= Len(self.tokens)
    THEN [self |-> [self EXCEPT !.index = self.index + 1], returned |-> TRUE]
    ELSE [self |-> self, returned |-> FALSE]

\* IkTokenStream::advance: the stream it leaves and what it returns
IkTokenStream_advance(self) ==
    IF self.index < Len(self.tokens)
    THEN [self |-> [self EXCEPT !.index = self.index + 1], returned |-> TRUE]
    ELSE [self |-> self, returned |-> FALSE]

\* IkTokenStream::token and token_mut: the slot tokens[index - 1] they refer
\* to; at index 0 the subtraction overflows or wraps to an index out of
\* bounds, and the call panics in either build
IkTokenStream_token(self) ==
    IF self.index = 0 \/ self.index - 1 >= Len(self.tokens)
    THEN [panicked |-> TRUE, slot |-> 0, token |-> <<>>]
    ELSE [panicked |-> FALSE, slot |-> self.index - 1, token |-> self.tokens[self.index]]

\* the state a token_stream call leaves, r being what it did
Returned(r) ==
    /\ call' = r.call
    /\ letter' = r.letter
    /\ quantifier' = r.quantifier
    /\ ik_poisoned' = r.poisoned
    /\ stream' = IkTokenStream_from(r.call.tokens)
    /\ stream_op' = [op |-> "new"]

\* IkTokenizer::new(m).token_stream(text), in a build with or without overflow checks
TokenStream(m, overflow_checks) ==
    /\ phase = "input"
    /\ Returned(token_stream(letter, quantifier, ik_poisoned, GLOBAL_DICT, text, m,
                             overflow_checks))
    /\ mode' = m
    /\ phase' = "done"
    /\ UNCHANGED <<text, GLOBAL_DICT>>
    /\ UNCHANGED <<trieVars, judgeVars, listVars, optionVars, utilVars, threadVars>>

\* the caller drops the token stream and starts preparing its next text; a call
\* that never returns leaves its caller, and the lock on GLOBAL_IK, where they are
NextCall ==
    /\ phase = "done"
    /\ ~call.hung
    /\ phase' = "input"
    /\ text' = <<>>
    /\ call' = NoCall
    /\ stream' = IkTokenStream_from(<<>>)
    /\ stream_op' = [op |-> "new"]
    /\ UNCHANGED <<mode, letter, quantifier, ik_poisoned, GLOBAL_DICT>>
    /\ UNCHANGED <<trieVars, judgeVars, listVars, optionVars, utilVars, threadVars>>

Next ==
    \/ \E c \in Alphabet : PrepareText(c)
    \/ \E m \in TokenModes, overflow_checks \in BOOLEAN : TokenStream(m, overflow_checks)
    \/ NextCall

Spec == Init /\ [][Next]_vars

(***************************************************************************)
(* The Trie on its own: a caller inserts, deletes, tests and matches words *)
(* over a two-letter alphabet, taking each result before its next call.    *)
(***************************************************************************)
TrieAlphabet == {97, 98}

\* the words and buffers the caller uses
TrieWords == UNION {[1..k -> TrieAlphabet] : k \in 1..MaxWord}

\* Trie::insert
TrieInsert(chars) ==
    /\ trie_op.op = "idle"
    /\ trie_steps < MaxTrieOps
    /\ trie' = insert(trie, chars)
    /\ words' = words \cup {chars}
    /\ trie_op' = [op |-> "insert", chars |-> chars]
    /\ trie_steps' = trie_steps + 1
    /\ UNCHANGED <<tokenizerVars, judgeVars, listVars, optionVars, streamVars, utilVars, threadVars>>

\* Trie::delete
TrieDelete(chars) ==
    /\ trie_op.op = "idle"
    /\ trie_steps < MaxTrieOps
    /\ trie' = delete(trie, chars)
    /\ words' = words \ {chars}
    /\ trie_op' = [op |-> "delete", chars |-> chars, result |-> TRUE, before |-> trie]
    /\ trie_steps' = trie_steps + 1
    /\ UNCHANGED <<tokenizerVars, judgeVars, listVars, optionVars, streamVars, utilVars, threadVars>>

\* Trie::exist
TrieExist(chars) ==
    /\ trie_op.op = "idle"
    /\ trie_op' = [op |-> "exist", chars |-> chars, result |-> exist(trie, chars)]
    /\ UNCHANGED <<trie, words, trie_steps, tokenizerVars, judgeVars, listVars, optionVars, streamVars, utilVars, threadVars>>

\* Trie::match_word_with_offset
TrieMatch(chars, offset, length) ==
    /\ trie_op.op = "idle"
    /\ trie_op' = [op |-> "match", chars |-> chars, offset |-> offset, length |-> length,
                   hits |-> match_with_offset(trie, chars, offset, length)]
    /\ UNCHANGED <<trie, words, trie_steps, tokenizerVars, judgeVars, listVars, optionVars, streamVars, utilVars, threadVars>>

\* Dictionary::is_stop_word, the trie being the stop-word dictionary
TrieIsStopWord(chars, offset, length) ==
    /\ trie_op.op = "idle"
    /\ trie_op' = [op |-> "is_stop_word", chars |-> chars, offset |-> offset, length |-> length,
                   result |-> is_stop_word([load EXCEPT !.stop_word_dict = trie], chars,
                                           offset, length)]
    /\ UNCHANGED <<trie, words, trie_steps, tokenizerVars, judgeVars, listVars, optionVars, streamVars, utilVars, threadVars>>

\* the caller has taken the result
TrieReturn ==
    /\ trie_op.op # "idle"
    /\ trie_op' = [op |-> "idle"]
    /\ UNCHANGED <<trie, words, trie_steps, tokenizerVars, judgeVars, listVars, optionVars, streamVars, utilVars, threadVars>>

NextTrie ==
    \/ \E chars \in TrieWords : TrieInsert(chars)
    \/ \E chars \in TrieWords : TrieDelete(chars)
    \/ \E chars \in TrieWords : TrieExist(chars)
    \/ \E chars \in TrieWords, offset \in 0..MaxWord, length \in 0..MaxWord :
           TrieMatch(chars, offset, length)
    \/ \E chars \in TrieWords, offset \in 0..MaxWord, length \in 0..MaxWord :
           TrieIsStopWord(chars, offset, length)
    \/ TrieReturn

SpecTrie == Init /\ [][NextTrie]_vars

(***************************************************************************)
(* IKArbitrator::judge on its own: process gathers a cross group from a    *)
(* sorted candidate list and, in SEARCH mode, hands it to judge.           *)
(***************************************************************************)
\* process adds the next candidate of the sorted list to the cross path
CrossAdd(begin, length) ==
    /\ ~judged.done
    /\ size(cross) < MaxCross
    /\ begin + length <= MaxPos
    /\ size(cross) > 0 =>
           lexeme_cmp(cross.lexeme_list[size(cross)], Lexeme(0, begin, length, "CNWORD")) = "Less"
    /\ add_cross_lexeme(cross, Lexeme(0, begin, length, "CNWORD")).ok
    /\ cross' = add_cross_lexeme(cross, Lexeme(0, begin, length, "CNWORD")).path
    /\ UNCHANGED <<judged, tokenizerVars, trieVars, utilVars, threadVars,
                   listVars, optionVars, streamVars>>

\* the judge_result of process, for a cross path of more than one lexeme
Judge ==
    /\ ~judged.done
    /\ size(cross) > 1
    /\ judged' = [done |-> TRUE] @@ judge(cross.lexeme_list)
    /\ UNCHANGED <<cross, tokenizerVars, trieVars, utilVars, threadVars,
                   listVars, optionVars, streamVars>>

\* process stores the result and starts a new cross path
NextCross ==
    /\ judged.done
    /\ cross' = LexemePath_new
    /\ judged' = [done |-> FALSE]
    /\ UNCHANGED <<tokenizerVars, trieVars, utilVars, threadVars, listVars, optionVars, streamVars>>

NextJudge ==
    \/ \E begin \in 0..MaxPos, length \in 1..MaxPos : CrossAdd(begin, length)
    \/ Judge
    \/ NextCross

SpecJudge == Init /\ [][NextJudge]_vars

(***************************************************************************)
(* The free-standing functions on their own: a caller hands regularize,    *)
(* regularize_str and TokenMode::try_from an input and takes the result,   *)
(* or normalizes a text and tokenizes it with a fresh IKSegmenter.         *)
(***************************************************************************)
\* the code points around the borders of the rules of regularize: ' ', '1', '@',
\* 'A', 'Z', '[', 'a', U+3000, U+4E00, U+FF00, U+FF01, U+FF21, U+FF3A, U+FF41,
\* U+FF5E, U+FF5F
UtilChars ==
    {32, 49, 64, 65, 90, 91, 97, 12288, 19968, 65280, 65281, 65313, 65338, 65345,
     65374, 65375}

\* the characters the caller classifies: those of the texts, those around the
\* rules of regularize, NUL, a Latin-1 letter and both ends of the gap
\* U+2FE0..U+2FEF that no Unicode block covers
CharTypeInputs == Alphabet \cup UtilChars \cup {0, 233, 12256, 12271, 12272}

\* full-width "Ade", the text of tests::test_regularize
FullWidthAde == <<65313, 65348, 65349>>

\* the texts the caller uses
UtilStrings == UNION {[1..k -> UtilChars] : k \in 0..MaxUtilLen} \cup {FullWidthAde}

\* the aliases the caller hands to TokenMode::try_from
AliasInputs ==
    {"ik_max", "ik_smart", "", "IK_MAX", "Ik_Smart", " ik_max", "ik_smart ", "ik_max\n",
     "ik", "ik_", "ik_maxx", "index", "search", "INDEX", "SEARCH", "smart", "max"}

\* try_from taking every other alias for INDEX
TokenMode_try_from_lenient(value) ==
    IF value = "ik_smart" THEN [ok |-> TRUE, mode |-> "SEARCH"]
    ELSE [ok |-> TRUE, mode |-> "INDEX"]

\* TokenMode::try_from(&str)
TokenMode_try_from(value) ==
    IF value = "ik_max" THEN [ok |-> TRUE, mode |-> "INDEX"]
    ELSE IF value = "ik_smart" THEN [ok |-> TRUE, mode |-> "SEARCH"]
    ELSE [ok |-> FALSE, mode |-> "NONE"]

\* TokenMode::default()
TokenMode_default == "INDEX"

\* what IKSegmenter::new().tokenize(input, m) gives its caller
fresh_tokenize(input, m, overflow_checks) ==
    [t \in {"panicked", "hung", "final_results"} |->
        tokenize(LetterSegmenter_new, CnQuantifierSegmenter_new, load, input, m,
                 overflow_checks)[t]]

\* the texts the caller tokenizes and tokenizes again
RoundTripTexts == UNION {[1..k -> Alphabet] : k \in 0..MaxLen}

RECURSIVE concat_texts(_, _)
\* the lexeme_text values of lexemes[i..], one after the other
concat_texts(lexemes, i) ==
    IF i > Len(lexemes) THEN <<>>
    ELSE lexemes[i].lexeme_text \o concat_texts(lexemes, i + 1)

\* the caller, holding the result once of a first tokenize, concatenates the
\* texts and hands them to a fresh IKSegmenter
tokenize_again(m, overflow_checks, once) ==
    [once |-> once,
     again |-> fresh_tokenize(concat_texts(once.final_results, 1), m, overflow_checks)]

\* regularize(c)
UtilRegularize(c) ==
    /\ util_op.op = "idle"
    /\ util_op' = [op |-> "regularize", input |-> c, output |-> regularize(c)]
    /\ UNCHANGED <<tokenizerVars, trieVars, judgeVars, listVars, optionVars, streamVars, threadVars>>

\* regularize_str(x)
UtilRegularizeStr(x) ==
    /\ util_op.op = "idle"
    /\ util_op' = [op |-> "regularize_str", input |-> x, output |-> regularize_str(x)]
    /\ UNCHANGED <<tokenizerVars, trieVars, judgeVars, listVars, optionVars, streamVars, threadVars>>

\* the caller tokenizes regularize_str(x) and regularize_str(regularize_str(x)),
\* each with a fresh IKSegmenter
UtilTokenize(x, m, overflow_checks) ==
    /\ util_op.op = "idle"
    /\ util_op' = [op |-> "tokenize", input |-> x, mode |-> m,
                   once |-> fresh_tokenize(regularize_str(x), m, overflow_checks),
                   twice |-> fresh_tokenize(regularize_str(regularize_str(x)), m,
                                            overflow_checks)]
    /\ UNCHANGED <<tokenizerVars, trieVars, judgeVars, listVars, optionVars, streamVars, threadVars>>

\* char_type_of(&c)
UtilCharTypeOf(c) ==
    /\ util_op.op = "idle"
    /\ util_op' = [op |-> "char_type_of", input |-> c, output |-> char_type_of(c)]
    /\ UNCHANGED <<tokenizerVars, trieVars, judgeVars, listVars, optionVars, streamVars, threadVars>>

\* IKSegmenter::new().tokenize(x, m), then the same on the concatenated texts
UtilRoundTrip(x, m, overflow_checks) ==
    /\ util_op.op = "idle"
    /\ util_op' = [op |-> "round_trip", input |-> x, mode |-> m] @@
                  tokenize_again(m, overflow_checks, fresh_tokenize(x, m, overflow_checks))
    /\ UNCHANGED <<tokenizerVars, trieVars, judgeVars, listVars, optionVars, streamVars, threadVars>>

\* TokenMode::try_from(value)
UtilTryFrom(value) ==
    /\ util_op.op = "idle"
    /\ util_op' = [op |-> "try_from", input |-> value, result |-> TokenMode_try_from(value)]
    /\ UNCHANGED <<tokenizerVars, trieVars, judgeVars, listVars, optionVars, streamVars, threadVars>>

\* TokenMode::default()
UtilDefault ==
    /\ util_op.op = "idle"
    /\ util_op' = [op |-> "default", result |-> TokenMode_default]
    /\ UNCHANGED <<tokenizerVars, trieVars, judgeVars, listVars, optionVars, streamVars, threadVars>>

\* the caller has taken the result
UtilReturn ==
    /\ util_op.op # "idle"
    /\ util_op' = [op |-> "idle"]
    /\ UNCHANGED <<tokenizerVars, trieVars, judgeVars, listVars, optionVars, streamVars, threadVars>>

NextUtil ==
    \/ \E c \in UtilChars : UtilRegularize(c)
    \/ \E x \in UtilStrings : UtilRegularizeStr(x)
    \/ \E x \in UtilStrings, m \in TokenModes, overflow_checks \in BOOLEAN :
           UtilTokenize(x, m, overflow_checks)
    \/ \E x \in RoundTripTexts, m \in TokenModes, overflow_checks \in BOOLEAN :
           UtilRoundTrip(x, m, overflow_checks)
    \/ \E c \in CharTypeInputs : UtilCharTypeOf(c)
    \/ \E value \in AliasInputs : UtilTryFrom(value)
    \/ UtilDefault
    \/ UtilReturn

SpecUtil == Init /\ [][NextUtil]_vars

(***************************************************************************)
(* Threads: each thread makes one token_stream call on the shared          *)
(* GLOBAL_IK, which takes the GLOBAL_IK mutex for the whole of tokenize    *)
(* and the GLOBAL_DICT mutex for each dictionary lookup, while another     *)
(* thread calls add_words and disable_words on GLOBAL_DICT.                *)
(***************************************************************************)
Threads == 1..NumThreads

\* the thread that mutates the dictionary
Mutator == NumThreads + 1

\* the texts the threads tokenize: "", ".1.", "1" and "one", "one-ge-zhong"
ThreadTexts == {<<>>, <<46, 49, 46>>, <<49, 19968>>, <<19968, 20010, 20013>>}

\* the word lists the mutator adds or disables: "one-ge" and "ge-zhong"; "zhong"
MutatorWords == { << <<19968, 20010>>, <<20010, 20013>> >>, << <<20013>> >> }

\* the thread moves on, f being the fields of its record that change
thread_goes(t, f) == threads' = [threads EXCEPT ![t] = f @@ threads[t]]

\* tokenize panics: the guard of GLOBAL_IK is dropped while panicking
tokenize_unwinds(t) ==
    /\ thread_goes(t, [pc |-> "panicked"])
    /\ ik_poisoned' = TRUE
    /\ ik_owner' = 0

\* a thread calls token_stream: regularize_str and char_indices, no lock yet;
\* the threads are of one build, with or without overflow checks
ThreadCall(t, x, m, overflow_checks) ==
    /\ threads[t].pc = "idle"
    /\ \A u \in Threads :
           threads[u].pc # "idle" => threads[u].overflow_checks = overflow_checks
    /\ threads' = [threads EXCEPT ![t] =
                      [pc |-> "wait_ik", regular_str |-> regularize_str(x), mode |-> m,
                       overflow_checks |-> overflow_checks, cursor |-> 0, l |-> <<>>,
                       q |-> <<>>, c |-> <<>>, seen |-> {}, origin_lexemes |-> <<>>,
                       out |-> <<>>, final_results |-> <<>>, tokens |-> <<>>]]
    /\ UNCHANGED <<ik_owner, dict_owner, mutations>>
    /\ UNCHANGED <<tokenizerVars, trieVars, judgeVars, listVars, optionVars, streamVars, utilVars>>

\* GLOBAL_IK.lock().unwrap(): a poisoned mutex makes the unwrap panic
ThreadLockIK(t) ==
    /\ threads[t].pc = "wait_ik"
    /\ ik_owner = 0
    /\ IF ik_poisoned
       THEN thread_goes(t, [pc |-> "panicked"]) /\ UNCHANGED ik_owner
       ELSE thread_goes(t, [pc |-> "letter"]) /\ ik_owner' = t
    /\ UNCHANGED <<dict_owner, mutations>>
    /\ UNCHANGED <<tokenizerVars, trieVars, judgeVars, listVars, optionVars, streamVars, utilVars>>

\* LetterSegmenter::analyze, which takes no lock
ThreadLetter(t) ==
    /\ threads[t].pc = "letter"
    /\ IF tokenize_panics(threads[t].regular_str, threads[t].overflow_checks)
       THEN tokenize_unwinds(t) /\ UNCHANGED letter
       ELSE /\ thread_goes(t, [pc |-> "quantifier",
                               l |-> LetterSegmenter_analyze(letter, threads[t].regular_str)])
            /\ letter' = LetterSegmenter_analyze(letter, threads[t].regular_str).self
            /\ UNCHANGED <<ik_poisoned, ik_owner>>
    /\ UNCHANGED <<dict_owner, mutations>>
    /\ UNCHANGED <<text, phase, mode, quantifier, GLOBAL_DICT, call>>
    /\ UNCHANGED <<trieVars, judgeVars, listVars, optionVars, streamVars, utilVars>>

\* GLOBAL_DICT.lock().unwrap() of a lookup: of process_count, of the CJK
\* segmenter at its cursor, or of the stop-word loop
ThreadLockDict(t) ==
    /\ \/ threads[t].pc = "quantifier"
       \/ /\ threads[t].pc = "cjk"
          /\ threads[t].cursor < Len(threads[t].regular_str)
          /\ char_type_of(threads[t].regular_str[threads[t].cursor + 1]) # "USELESS"
       \/ threads[t].pc = "filter" /\ threads[t].out # <<>>
    /\ dict_owner = 0
    /\ dict_owner' = t
    /\ thread_goes(t, [pc |-> IF threads[t].pc = "quantifier" THEN "quantifier_locked"
                              ELSE IF threads[t].pc = "cjk" THEN "cjk_locked"
                              ELSE "filter_locked"])
    /\ UNCHANGED <<ik_owner, mutations>>
    /\ UNCHANGED <<tokenizerVars, trieVars, judgeVars, listVars, optionVars, streamVars, utilVars>>

\* CnQuantifierSegmenter::analyze, the lookups of process_count taken as one
\* critical section (no call changes the quantifier dictionary)
ThreadQuantifier(t) ==
    /\ threads[t].pc = "quantifier_locked"
    /\ thread_goes(t, [pc |-> "cjk",
                       q |-> CnQuantifierSegmenter_analyze(quantifier, GLOBAL_DICT,
                                                           threads[t].regular_str)])
    /\ quantifier' = CnQuantifierSegmenter_analyze(quantifier, GLOBAL_DICT,
                                                   threads[t].regular_str).self
    /\ dict_owner' = 0
    /\ UNCHANGED <<ik_owner, mutations>>
    /\ UNCHANGED <<text, phase, mode, letter, ik_poisoned, GLOBAL_DICT, call>>
    /\ UNCHANGED <<trieVars, judgeVars, listVars, optionVars, streamVars, utilVars>>

\* CJKSegmenter::analyze at a USELESS character: no lookup
ThreadCjkSkip(t) ==
    /\ threads[t].pc = "cjk"
    /\ threads[t].cursor < Len(threads[t].regular_str)
    /\ char_type_of(threads[t].regular_str[threads[t].cursor + 1]) = "USELESS"
    /\ thread_goes(t, [cursor |-> threads[t].cursor + 1])
    /\ UNCHANGED <<ik_owner, dict_owner, mutations>>
    /\ UNCHANGED <<tokenizerVars, trieVars, judgeVars, listVars, optionVars, streamVars, utilVars>>

\* CJKSegmenter::analyze at its cursor: the lookup in the main dictionary as it
\* is now, after which the guard is dropped; seen gathers the dictionaries the
\* lookups of the call were made in
ThreadCjkLookup(t) ==
    /\ threads[t].pc = "cjk_locked"
    /\ thread_goes(t, [pc |-> "cjk", cursor |-> threads[t].cursor + 1,
                       c |-> threads[t].c \o cjk_cursor(GLOBAL_DICT, threads[t].regular_str,
                                                        threads[t].cursor),
                       seen |-> threads[t].seen \cup {GLOBAL_DICT}])
    /\ dict_owner' = 0
    /\ UNCHANGED <<ik_owner, mutations>>
    /\ UNCHANGED <<tokenizerVars, trieVars, judgeVars, listVars, optionVars, streamVars, utilVars>>

\* what the arbitrator and the assembler make of the candidates of the thread
thread_assembled(t) ==
    output_to_result(
        process(collect_lexemes(threads[t].l, threads[t].q, threads[t].c).origin_lexemes,
                threads[t].mode),
        threads[t].regular_str)

\* IKArbitrator::process and output_to_result, which take no lock: they panic,
\* never return, or leave the list for the stop-word loop
ThreadAssemble(t) ==
    /\ threads[t].pc = "cjk"
    /\ threads[t].cursor >= Len(threads[t].regular_str)
    /\ IF \/ /\ threads[t].overflow_checks
             /\ process_overflows(collect_lexemes(threads[t].l, threads[t].q,
                                                  threads[t].c).origin_lexemes)
          \/ thread_assembled(t).panicked
       THEN tokenize_unwinds(t)
       ELSE /\ thread_goes(t, [pc |-> IF thread_assembled(t).hung THEN "hung" ELSE "filter",
                               origin_lexemes |->
                                   collect_lexemes(threads[t].l, threads[t].q,
                                                   threads[t].c).origin_lexemes,
                               out |-> IF thread_assembled(t).hung THEN <<>>
                                       ELSE thread_assembled(t).results])
            /\ UNCHANGED <<ik_poisoned, ik_owner>>
    /\ UNCHANGED <<dict_owner, mutations>>
    /\ UNCHANGED <<text, phase, mode, letter, quantifier, GLOBAL_DICT, call>>
    /\ UNCHANGED <<trieVars, judgeVars, listVars, optionVars, streamVars, utilVars>>

\* the compounding and stop-word loop of tokenize, its is_stop_word lookups
\* taken as one critical section (no call changes the stop-word dictionary);
\* tokenize returns and the guard of GLOBAL_IK is dropped
ThreadFilter(t) ==
    /\ \/ threads[t].pc = "filter_locked"
       \/ threads[t].pc = "filter" /\ threads[t].out = <<>>
    /\ thread_goes(t, [pc |-> "tokens",
                       final_results |->
                           filter_loop(GLOBAL_DICT, threads[t].regular_str, threads[t].mode,
                                       threads[t].out, <<>>, <<>>).final_results,
                       seen |-> IF threads[t].out = <<>> THEN threads[t].seen
                                ELSE threads[t].seen \cup {GLOBAL_DICT}])
    /\ dict_owner' = IF threads[t].pc = "filter_locked" THEN 0 ELSE dict_owner
    /\ ik_owner' = 0
    /\ UNCHANGED mutations
    /\ UNCHANGED <<tokenizerVars, trieVars, judgeVars, listVars, optionVars, streamVars, utilVars>>

\* the loop of token_stream that builds the Tokens, outside every lock
ThreadTokens(t) ==
    /\ threads[t].pc = "tokens"
    /\ IF tokens_panic(index_table(threads[t].regular_str), threads[t].final_results)
       THEN thread_goes(t, [pc |-> "panicked"])
       ELSE thread_goes(t, [pc |-> "returned",
                            tokens |-> [i \in 1..Len(threads[t].final_results) |->
                                           make_token(index_table(threads[t].regular_str),
                                                      Utf8String(threads[t].regular_str),
                                                      threads[t].final_results[i])]])
    /\ UNCHANGED <<ik_owner, dict_owner, mutations>>
    /\ UNCHANGED <<tokenizerVars, trieVars, judgeVars, listVars, optionVars, streamVars, utilVars>>

\* GLOBAL_DICT.lock().unwrap() of the thread that mutates the dictionary
MutatorLock ==
    /\ mutations < MaxMutations
    /\ dict_owner = 0
    /\ dict_owner' = Mutator
    /\ UNCHANGED <<threads, ik_owner, mutations>>
    /\ UNCHANGED <<tokenizerVars, trieVars, judgeVars, listVars, optionVars, streamVars, utilVars>>

\* Dictionary::add_words, after which the guard is dropped
MutatorAddWords(w) ==
    /\ dict_owner = Mutator
    /\ GLOBAL_DICT' = add_words(GLOBAL_DICT, w, 1)
    /\ dict_owner' = 0
    /\ mutations' = mutations + 1
    /\ UNCHANGED <<threads, ik_owner>>
    /\ UNCHANGED <<text, phase, mode, letter, quantifier, ik_poisoned, call>>
    /\ UNCHANGED <<trieVars, judgeVars, listVars, optionVars, streamVars, utilVars>>

\* Dictionary::disable_words, after which the guard is dropped
MutatorDisableWords(w) ==
    /\ dict_owner = Mutator
    /\ GLOBAL_DICT' = disable_words(GLOBAL_DICT, w, 1)
    /\ dict_owner' = 0
    /\ mutations' = mutations + 1
    /\ UNCHANGED <<threads, ik_owner>>
    /\ UNCHANGED <<text, phase, mode, letter, quantifier, ik_poisoned, call>>
    /\ UNCHANGED <<trieVars, judgeVars, listVars, optionVars, streamVars, utilVars>>

\* the steps of a call that is under way
ThreadStep(t) ==
    \/ ThreadLockIK(t)
    \/ ThreadLetter(t)
    \/ ThreadLockDict(t)
    \/ ThreadQuantifier(t)
    \/ ThreadCjkSkip(t)
    \/ ThreadCjkLookup(t)
    \/ ThreadAssemble(t)
    \/ ThreadFilter(t)
    \/ ThreadTokens(t)

\* the steps of the mutating thread once it holds the guard
MutatorStep ==
    \/ \E w \in MutatorWords : MutatorAddWords(w)
    \/ \E w \in MutatorWords : MutatorDisableWords(w)

NextThreads ==
    \/ \E t \in Threads, x \in ThreadTexts, m \in TokenModes, overflow_checks \in BOOLEAN :
           ThreadCall(t, x, m, overflow_checks)
    \/ \E t \in Threads : ThreadStep(t)
    \/ MutatorLock
    \/ MutatorStep

SpecThreads == Init /\ [][NextThreads]_vars

\* fair scheduling: a thread that can take a step of its call does so, and the
\* mutating thread finishes the call it holds the guard for
SpecThreadsFair ==
    /\ Init
    /\ [][NextThreads]_vars
    /\ \A t \in Threads : WF_vars(ThreadStep(t))
    /\ WF_vars(MutatorStep)
(***************************************************************************)
(* The sub-segmenters on their own: a caller holds a LetterSegmenter and a *)
(* CnQuantifierSegmenter, hands analyze one buffer after the other and     *)
(* takes the lexemes; GLOBAL_DICT is the loaded dictionary, or that        *)
(* dictionary after an add_words or a disable_words call.                  *)
(***************************************************************************)
\* the buffers handed to analyze: characters that char_type_of classifies
SegmentTexts == UNION {[1..k -> Alphabet \ {12256}] : k \in 0..MaxLen}

\* the Vecs of words handed to add_words and disable_words: "one-ge" and
\* "ge-zhong"; "zhong"; full-width 'A' and "."
SegmentWords ==
    { << <<19968, 20010>>, <<20010, 20013>> >>, << <<20013>> >>, << <<65313>>, <<46>> >> }

\* what the caller of LetterSegmenter::analyze holds: nothing but the panic of
\* char_count - 1 on an empty buffer in a build with overflow checks (the
\* first scan, which leaves the fields as they were), else the lexemes of r
letter_analyzed(self, input, overflow_checks, r) ==
    IF Len(input) = 0 /\ overflow_checks
    THEN [op |-> "letter", input |-> input, before |-> self, panicked |-> TRUE,
          lexemes |-> <<>>, self |-> self]
    ELSE [op |-> "letter", input |-> input, before |-> self, panicked |-> FALSE,
          lexemes |-> r.lexemes, self |-> r.self]

\* LetterSegmenter::analyze(input)
LetterAnalyze(input, overflow_checks) ==
    /\ util_op.op = "idle"
    /\ util_op' = letter_analyzed(letter, input, overflow_checks,
                                  LetterSegmenter_analyze(letter, input))
    /\ letter' = util_op'.self
    /\ UNCHANGED <<text, phase, mode, quantifier, ik_poisoned, GLOBAL_DICT, call>>
    /\ UNCHANGED <<trieVars, judgeVars, listVars, optionVars, streamVars, threadVars>>

\* what the caller of CnQuantifierSegmenter::analyze holds
quantifier_analyzed(self, input, r) ==
    [op |-> "quantifier", input |-> input, before |-> self, lexemes |-> r.lexemes,
     self |-> r.self]

\* CnQuantifierSegmenter::analyze(input)
QuantifierAnalyze(input) ==
    /\ util_op.op = "idle"
    /\ util_op' = quantifier_analyzed(quantifier, input,
                      CnQuantifierSegmenter_analyze(quantifier, GLOBAL_DICT, input))
    /\ quantifier' = util_op'.self
    /\ UNCHANGED <<text, phase, mode, letter, ik_poisoned, GLOBAL_DICT, call>>
    /\ UNCHANGED <<trieVars, judgeVars, listVars, optionVars, streamVars, threadVars>>

\* CJKSegmenter::analyze(input)
CjkAnalyze(input) ==
    /\ util_op.op = "idle"
    /\ util_op' = [op |-> "cjk", input |-> input,
                   lexemes |-> CJKSegmenter_analyze(GLOBAL_DICT, input, 0)]
    /\ UNCHANGED <<tokenizerVars, trieVars, judgeVars, listVars, optionVars, streamVars, threadVars>>

\* GLOBAL_DICT.lock().unwrap().add_words(w)
SegmentAddWords(w) ==
    /\ util_op.op = "idle"
    /\ mutations < MaxMutations
    /\ GLOBAL_DICT' = add_words(GLOBAL_DICT, w, 1)
    /\ mutations' = mutations + 1
    /\ UNCHANGED <<text, phase, mode, letter, quantifier, ik_poisoned, call>>
    /\ UNCHANGED <<trieVars, judgeVars, listVars, optionVars, streamVars, utilVars, threads, ik_owner, dict_owner>>

\* GLOBAL_DICT.lock().unwrap().disable_words(w)
SegmentDisableWords(w) ==
    /\ util_op.op = "idle"
    /\ mutations < MaxMutations
    /\ GLOBAL_DICT' = disable_words(GLOBAL_DICT, w, 1)
    /\ mutations' = mutations + 1
    /\ UNCHANGED <<text, phase, mode, letter, quantifier, ik_poisoned, call>>
    /\ UNCHANGED <<trieVars, judgeVars, listVars, optionVars, streamVars, utilVars, threads, ik_owner, dict_owner>>

\* the caller has taken the lexemes
SegmentReturn ==
    /\ util_op.op # "idle"
    /\ util_op' = [op |-> "idle"]
    /\ UNCHANGED <<tokenizerVars, trieVars, judgeVars, listVars, optionVars, streamVars, threadVars>>

NextSegment ==
    \/ \E input \in SegmentTexts, overflow_checks \in BOOLEAN :
           LetterAnalyze(input, overflow_checks)
    \/ \E input \in SegmentTexts : QuantifierAnalyze(input)
    \/ \E input \in SegmentTexts : CjkAnalyze(input)
    \/ \E w \in SegmentWords : SegmentAddWords(w)
    \/ \E w \in SegmentWords : SegmentDisableWords(w)
    \/ SegmentReturn

SpecSegment == Init /\ [][NextSegment]_vars

(***************************************************************************)
(* OrderedLinkedList and IKArbitrator::process on their own: a caller      *)
(* inserts lexemes into a list in any order and hands the list to process. *)
(***************************************************************************)
\* the lexemes the caller inserts: offset 0, a span within 0 .. MaxListPos
ListLexemes ==
    {Lexeme(0, begin, length, lexeme_type) :
        begin \in 0..(MaxListPos - 1), length \in 1..MaxListPos,
        lexeme_type \in {"CNWORD", "CNUM"}}

\* OrderedLinkedList::insert(data)
ListInsert(data) ==
    /\ olist.length < MaxList
    /\ data.begin + data.length <= MaxListPos
    /\ olist' = OrderedLinkedList_insert(olist, data)
    /\ list_op' = [op |-> "insert", data |-> data, before |-> olist]
    /\ UNCHANGED <<tokenizerVars, trieVars, judgeVars, utilVars, threadVars, cross_op,
                   optionVars, streamVars>>

\* IKArbitrator::process(&mut olist, m)
ListProcess(m) ==
    /\ list_op' = [op |-> "process", mode |-> m, org_lexemes |-> olist.nodes,
                   path_map |-> process(olist.nodes, m)]
    /\ UNCHANGED <<tokenizerVars, trieVars, judgeVars, utilVars, threadVars, olist, cross_op,
                   optionVars, streamVars>>

NextList ==
    \/ \E data \in ListLexemes : ListInsert(data)
    \/ \E m \in TokenModes : ListProcess(m)

SpecList == Init /\ [][NextList]_vars

(***************************************************************************)
(* LexemePath::add_cross_lexeme on its own: process hands a cross path one *)
(* lexeme after the other and starts a new path when it likes.             *)
(***************************************************************************)
\* what the caller of add_cross_lexeme holds; r is what the call did
cross_added(self, lexeme, r) ==
    [op |-> "add_cross_lexeme", lexeme |-> lexeme, before |-> self, ok |-> r.ok]

\* cross.add_cross_lexeme(&lexeme)
PathAddCross(lexeme) ==
    /\ size(cross) < MaxCross
    /\ lexeme.begin + lexeme.length <= MaxListPos
    /\ cross' = add_cross_lexeme(cross, lexeme).path
    /\ cross_op' = cross_added(cross, lexeme, add_cross_lexeme(cross, lexeme))
    /\ UNCHANGED <<judged, tokenizerVars, trieVars, utilVars, threadVars, olist, list_op,
                   optionVars, streamVars>>

\* cross = LexemePath::new()
PathNew ==
    /\ size(cross) > 0
    /\ cross' = LexemePath_new
    /\ cross_op' = [op |-> "new"]
    /\ UNCHANGED <<judged, tokenizerVars, trieVars, utilVars, threadVars, olist, list_op,
                   optionVars, streamVars>>

NextPath ==
    \/ \E lexeme \in ListLexemes : PathAddCross(lexeme)
    \/ PathNew

SpecPath == Init /\ [][NextPath]_vars

(***************************************************************************)
(* LexemePath::add_not_cross_lexeme and remove_tail on their own: a caller *)
(* builds an option path from any lexemes and takes tails off it.          *)
(***************************************************************************)
\* what the caller of add_not_cross_lexeme holds; r is what the call did
not_cross_added(self, lexeme, r) ==
    [op |-> "add_not_cross_lexeme", lexeme |-> lexeme, before |-> self, ok |-> r.ok]

\* noncross.add_not_cross_lexeme(&lexeme)
OptionAdd(lexeme) ==
    /\ lexeme.begin + lexeme.length <= MaxListPos
    /\ noncross' = add_not_cross_lexeme(noncross, lexeme).path
    /\ noncross_op' = not_cross_added(noncross, lexeme, add_not_cross_lexeme(noncross, lexeme))
    /\ UNCHANGED <<judging, tokenizerVars, trieVars, judgeVars, utilVars, threadVars,
                   listVars, streamVars>>

\* noncross.remove_tail()
OptionRemoveTail ==
    /\ noncross' = remove_tail(noncross)
    /\ noncross_op' = [op |-> "remove_tail", before |-> noncross]
    /\ UNCHANGED <<judging, tokenizerVars, trieVars, judgeVars, utilVars, threadVars,
                   listVars, streamVars>>

NextOption ==
    \/ \E lexeme \in ListLexemes : OptionAdd(lexeme)
    \/ OptionRemoveTail

SpecOption == Init /\ [][NextOption]_vars

(***************************************************************************)
(* IKArbitrator::judge step by step: the first forward pass, then one turn *)
(* of the while loop after the other, each with its back_path loop.        *)
(***************************************************************************)
\* the stack with its top left on it
lexeme_stack_peek(lexeme_stack) == lexeme_stack

\* the stack lexeme_stack.pop() leaves
lexeme_stack_pop(lexeme_stack) == SubSeq(lexeme_stack, 1, Len(lexeme_stack) - 1)

\* the locals of judge after the first forward_path; first is what it returned
judge_started(first) ==
    [pc |-> "loop", option_path |-> first.option, lexeme_stack |-> first.stack,
     path_options |-> btree_insert(<<>>, first.option), recorded |-> <<first.option>>,
     c |-> 0, rejected |-> Len(first.stack), iterations |-> 0,
     back_size |-> 0, removed |-> 0, removed_total |-> 0]

\* judge(cross_path.get_head()) up to the while loop
JudgeCall ==
    /\ judging.pc = "idle"
    /\ size(cross) > 1
    /\ judging' = judge_started(forward_path(cross.lexeme_list, 1, LexemePath_new))
    /\ UNCHANGED <<noncross, noncross_op, tokenizerVars, trieVars, judgeVars, utilVars,
                   threadVars, listVars, streamVars>>

\* while let Some(c) = lexeme_stack.pop()
JudgePop ==
    /\ judging.pc = "loop"
    /\ Len(judging.lexeme_stack) > 0
    /\ judging' = [judging EXCEPT !.pc = "back",
                                  !.c = judging.lexeme_stack[Len(judging.lexeme_stack)],
                                  !.lexeme_stack = lexeme_stack_pop(judging.lexeme_stack),
                                  !.iterations = judging.iterations + 1,
                                  !.back_size = size(judging.option_path),
                                  !.removed = 0]
    /\ UNCHANGED <<noncross, noncross_op, tokenizerVars, trieVars, judgeVars, utilVars,
                   threadVars, listVars, streamVars>>

\* one turn of the while loop of back_path: option.remove_tail()
JudgeBackRemove ==
    /\ judging.pc = "back"
    /\ check_cross(judging.option_path, cross.lexeme_list[judging.c])
    /\ judging' = [judging EXCEPT !.option_path = remove_tail(judging.option_path),
                                  !.removed = judging.removed + 1,
                                  !.removed_total = judging.removed_total + 1]
    /\ UNCHANGED <<noncross, noncross_op, tokenizerVars, trieVars, judgeVars, utilVars,
                   threadVars, listVars, streamVars>>

\* the locals of judge after forward_path(c, option_path) left option
judge_forwarded(self, option) ==
    [self EXCEPT !.pc = "loop", !.option_path = option,
                 !.path_options = btree_insert(self.path_options, option),
                 !.recorded = Append(self.recorded, option)]

\* back_path returns; forward_path(c, &mut option_path), whose stack is dropped,
\* and path_options.insert
JudgeForward ==
    /\ judging.pc = "back"
    /\ ~check_cross(judging.option_path, cross.lexeme_list[judging.c])
    /\ judging' = judge_forwarded(judging, forward_path(cross.lexeme_list, judging.c,
                                                        judging.option_path).option)
    /\ UNCHANGED <<noncross, noncross_op, tokenizerVars, trieVars, judgeVars, utilVars,
                   threadVars, listVars, streamVars>>

\* the stack is empty: judge returns the first of path_options
JudgeReturn ==
    /\ judging.pc = "loop"
    /\ Len(judging.lexeme_stack) = 0
    /\ judging' = [judging EXCEPT !.pc = "done"] @@ [result |-> judging.path_options[1]]
    /\ UNCHANGED <<noncross, noncross_op, tokenizerVars, trieVars, judgeVars, utilVars,
                   threadVars, listVars, streamVars>>

\* process stores the result and starts a new cross path
JudgeStored ==
    /\ judging.pc = "done"
    /\ cross' = LexemePath_new
    /\ judging' = [pc |-> "idle"]
    /\ UNCHANGED <<judged, noncross, noncross_op, tokenizerVars, trieVars, utilVars,
                   threadVars, listVars, streamVars>>

\* the steps of a judge call that has begun
JudgeRuns == JudgePop \/ JudgeBackRemove \/ JudgeForward \/ JudgeReturn

NextJudgeSteps ==
    \/ \E begin \in 0..MaxPos, length \in 1..MaxPos :
           judging.pc = "idle" /\ CrossAdd(begin, length)
    \/ JudgeCall
    \/ JudgePop
    \/ JudgeBackRemove
    \/ JudgeForward
    \/ JudgeReturn
    \/ JudgeStored

SpecJudgeSteps == Init /\ [][NextJudgeSteps]_vars

\* judge is straight-line code on one thread: a step that can be taken is taken
SpecJudgeStepsFair == SpecJudgeSteps /\ WF_vars(JudgeRuns)

(***************************************************************************)
(* The tokenizer on texts of CJK characters: the caller may add words to   *)
(* the main dictionary before a call.                                      *)
(***************************************************************************)
\* U+4E00 (one) and U+4E8C (two), Chinese numerals; U+4E2A (ge), a quantifier;
\* U+4E2D (zhong); U+3042 (hiragana a), an OtherCJK character; 'a', '1', '.'
CjkAlphabet == {19968, 20108, 20010, 20013, 12354, 97, 49, 46}

\* the word lists the caller adds: "two", a numeral that becomes a main word;
\* "two-ge", a numeral with its quantifier; and two lists that make the words
\* at 0..1, 1..3 and 3..4 of a long text
CjkWords ==
    { << <<20108>> >>, << <<20108, 20010>> >>,
      << <<12354, 20013>>, <<20013, 20010, 12354>> >>,
      << <<20013, 20013>>, <<20013, 12354, 20013>> >> }

\* texts of five characters whose words at 0..1 and 3..4 both cross the word at 1..3
CjkLongTexts ==
    { <<12354, 20013, 20010, 12354, 20013>>, <<20013, 20013, 12354, 20013, 20013>> }

\* the caller takes a whole text
PrepareLongText(t) ==
    /\ phase = "input"
    /\ text = <<>>
    /\ text' = t
    /\ UNCHANGED <<phase, mode, letter, quantifier, ik_poisoned, GLOBAL_DICT, call>>
    /\ UNCHANGED <<trieVars, judgeVars, listVars, optionVars, streamVars, utilVars, threadVars>>

\* GLOBAL_DICT.lock().unwrap().add_words(w) between two calls
CjkAddWords(w) ==
    /\ phase = "input"
    /\ text = <<>>
    /\ mutations < MaxMutations
    /\ GLOBAL_DICT' = add_words(GLOBAL_DICT, w, 1)
    /\ mutations' = mutations + 1
    /\ UNCHANGED <<text, phase, mode, letter, quantifier, ik_poisoned, call>>
    /\ UNCHANGED <<trieVars, judgeVars, listVars, optionVars, streamVars, utilVars,
                   threads, ik_owner, dict_owner>>

NextCjk ==
    \/ \E c \in CjkAlphabet : PrepareText(c)
    \/ \E t \in CjkLongTexts : PrepareLongText(t)
    \/ \E m \in TokenModes, overflow_checks \in BOOLEAN : TokenStream(m, overflow_checks)
    \/ NextCall
    \/ \E w \in CjkWords : CjkAddWords(w)

SpecCjk == Init /\ [][NextCjk]_vars


(***************************************************************************)
(* The token stream a call returns: its caller advances it, past its end   *)
(* too, and reads the current token after each advance.                    *)
(***************************************************************************)
StreamAlphabet == {97, 19968, 20010}

\* the calls made on the stream so far: advance calls, and those that returned true
stream_calls == IF stream_op.op = "new" THEN [advances |-> 0, successes |-> 0]
                ELSE [advances |-> stream_op.advances, successes |-> stream_op.successes]

\* stream.advance()
StreamAdvance ==
    /\ phase = "done"
    /\ call.returned
    /\ stream_calls.advances < Len(stream.tokens) + MaxExtraAdvance
    /\ stream' = IkTokenStream_advance(stream).self
    /\ stream_op' = [op |-> "advance",
                     returned |-> IkTokenStream_advance(stream).returned,
                     index_before |-> stream.index,
                     advances |-> stream_calls.advances + 1,
                     successes |-> stream_calls.successes
                                   + (IF IkTokenStream_advance(stream).returned THEN 1 ELSE 0)]
    /\ UNCHANGED <<text, phase, mode, letter, quantifier, ik_poisoned, GLOBAL_DICT, call>>
    /\ UNCHANGED <<trieVars, judgeVars, listVars, optionVars, utilVars, threadVars>>

\* stream.token() or stream.token_mut(), named by op; the caller reads once
\* after the stream is made or advanced
StreamToken(op) ==
    /\ phase = "done"
    /\ call.returned
    /\ stream_op.op \in {"new", "advance"}
    /\ stream_op' = [op |-> op,
                     panicked |-> IkTokenStream_token(stream).panicked,
                     slot |-> IkTokenStream_token(stream).slot,
                     token |-> IkTokenStream_token(stream).token,
                     advances |-> stream_calls.advances,
                     successes |-> stream_calls.successes]
    /\ UNCHANGED <<text, phase, mode, letter, quantifier, ik_poisoned, GLOBAL_DICT, call, stream>>
    /\ UNCHANGED <<trieVars, judgeVars, listVars, optionVars, utilVars, threadVars>>

NextStream ==
    \/ \E c \in StreamAlphabet : PrepareText(c)
    \/ \E m \in TokenModes, overflow_checks \in BOOLEAN : TokenStream(m, overflow_checks)
    \/ NextCall
    \/ StreamAdvance
    \/ StreamToken("token")
    \/ StreamToken("token_mut")

SpecStream == Init /\ [][NextStream]_vars

(***************************************************************************)
(* Properties of token_stream on the shared segmenter.                     *)
(***************************************************************************)
\* C1: tokenize and token_stream complete without panic and return a token
\* sequence for every input in both modes, the empty string included.
C1_EveryCallReturns == phase = "done" => call.returned

\* C2: the tokens one call returns are in non-decreasing position order.
C2_TokensInPositionOrder ==
    call.returned =>
        \A i, j \in 1..Len(call.tokens) :
            i < j => call.tokens[i].position <= call.tokens[j].position

\* a call returned several tokens at different positions
C2_Witness ==
    /\ call.returned
    /\ Len(call.tokens) >= 3
    /\ call.tokens[1].position < call.tokens[Len(call.tokens)].position

\* two lexemes share a character position
overlap(a, b) == a.begin < b.begin + b.length /\ b.begin < a.begin + a.length

\* C3: in SEARCH mode a token that follows another starts at or after the end
\* of that one, also after compounding.
C3_SearchTokensDisjoint ==
    (call.returned /\ mode = "SEARCH") =>
        \A i, j \in 1..Len(call.tokens) :
            i < j => call.tokens[j].position >=
                         call.tokens[i].position + call.tokens[i].position_length

\* a SEARCH call whose candidates overlapped returned several tokens
C3_Witness ==
    /\ call.returned
    /\ mode = "SEARCH"
    /\ Len(call.tokens) >= 2
    /\ \E i, j \in 1..Len(call.origin_lexemes) :
           i # j /\ overlap(call.origin_lexemes[i], call.origin_lexemes[j])

\* the characters a lexeme spans in the buffer of the call
span(l) == SubSeq(call.regular_str, l.begin + 1, l.begin + l.length)

\* the lexemes of a list that are no stop words, in order
RECURSIVE without_stop_words(_)
without_stop_words(list) ==
    IF list = <<>> THEN <<>>
    ELSE (IF is_stop_word(GLOBAL_DICT, call.regular_str, Head(list).begin, Head(list).length)
          THEN <<>> ELSE <<Head(list)>>)
         \o without_stop_words(Tail(list))

\* C4: no returned token spans exactly a word of the stop-word trie; tokenize
\* drops every lexeme, compounded ones included, that is_stop_word accepts and
\* nothing else.
C4_NoStopWordSurvives ==
    call.returned =>
        /\ \A i \in 1..Len(call.tokens) :
               ~exist(GLOBAL_DICT.stop_word_dict,
                      SubSeq(call.regular_str, call.tokens[i].position + 1,
                             call.tokens[i].position + call.tokens[i].position_length))
        /\ Len(call.orig_tokens) = Len(without_stop_words(call.compounded))
        /\ \A i \in 1..Len(call.orig_tokens) :
               lexeme_eq(call.orig_tokens[i], without_stop_words(call.compounded)[i])

\* a call dropped a stop word that compounding put together, and kept a lexeme
C4_Witness ==
    /\ call.returned
    /\ Len(call.tokens) >= 1
    /\ \E i \in 1..Len(call.compounded) :
           /\ is_stop_word(GLOBAL_DICT, call.regular_str, call.compounded[i].begin,
                           call.compounded[i].length)
           /\ \A j \in 1..Len(call.assembled) :
                  ~lexeme_eq(call.assembled[j], call.compounded[i])

\* the UTF-8 byte offset of character index i of the regularized text
byte_offset(i) == Len(Utf8String(SubSeq(call.regular_str, 1, i)))

\* C5: a token's position and position_length are its lexeme's begin and length,
\* offset_from and offset_to are the byte offsets of position and of
\* position + position_length, offset_from < offset_to, and text is the
\* characters from position to position + position_length.
C5_TokenFields ==
    call.returned =>
        \A i \in 1..Len(call.tokens) :
            /\ call.tokens[i].position = call.orig_tokens[i].begin
            /\ call.tokens[i].position_length = call.orig_tokens[i].length
            /\ call.tokens[i].position >= 0
            /\ call.tokens[i].position + call.tokens[i].position_length
                   <= Len(call.regular_str)
            /\ call.tokens[i].offset_from = byte_offset(call.tokens[i].position)
            /\ call.tokens[i].offset_to =
                   byte_offset(call.tokens[i].position + call.tokens[i].position_length)
            /\ call.tokens[i].offset_from < call.tokens[i].offset_to
            /\ call.tokens[i].text = Utf8String(span(call.orig_tokens[i]))

\* C6: after an analyze call returns, every recognition-state field of the
\* sub-segmenters is -1.
C6_StateReset ==
    (phase = "done" /\ call.returned) =>
        /\ letter = LetterSegmenter_new
        /\ quantifier = CnQuantifierSegmenter_new

\* C9: in INDEX mode every candidate lexeme appears in the output unless
\* is_stop_word holds for its span.
C9_IndexKeepsCandidates ==
    (call.returned /\ mode = "INDEX") =>
        \A i \in 1..Len(call.origin_lexemes) :
            \/ \E j \in 1..Len(call.orig_tokens) :
                   lexeme_eq(call.orig_tokens[j], call.origin_lexemes[i])
            \/ /\ call.origin_lexemes[i].begin >= 0
               /\ call.origin_lexemes[i].length >= 1
               /\ is_stop_word(GLOBAL_DICT, call.regular_str, call.origin_lexemes[i].begin,
                               call.origin_lexemes[i].length)

(***************************************************************************)
(* Properties of the Trie.                                                 *)
(***************************************************************************)
\* C7: the trie is a set of words: exist(w) holds exactly for the words
\* inserted and not deleted since.
C7_TrieIsSet == \A w \in TrieWords : exist(trie, w) <=> w \in words

CrossLexemes == {cross.lexeme_list[i] : i \in 1..size(cross)}

RECURSIVE path_of_set(_, _, _)
\* the path holding the lexemes of the list that are in S
path_of_set(list, S, path) ==
    IF list = <<>> THEN path
    ELSE path_of_set(Tail(list), S,
                     IF Head(list) \in S THEN add_not_cross_lexeme(path, Head(list)).path
                     ELSE path)

pairwise_disjoint(S) == \A a, b \in S : a # b => ~overlap(a, b)

\* C10: no set of pairwise non-overlapping lexemes of the cross group is
\* strictly preferred to the path judge returns.
C10_JudgeBestOfAllSets ==
    judged.done =>
        \A S \in SUBSET CrossLexemes :
            (S # {} /\ pairwise_disjoint(S)) =>
                path_cmp(path_of_set(cross.lexeme_list, S, LexemePath_new),
                         judged.result) # "Less"

\* C10 as amended: the path judge returns holds pairwise non-overlapping
\* lexemes of the cross group, and neither an option path the forward and
\* backward search enumerated nor a single lexeme of the group is strictly
\* preferred to it.
C10_JudgeBestOfEnumerated ==
    judged.done =>
        /\ \A i \in 1..size(judged.result) : judged.result.lexeme_list[i] \in CrossLexemes
        /\ pairwise_disjoint({judged.result.lexeme_list[i] : i \in 1..size(judged.result)})
        /\ \A i \in 1..Len(judged.recorded) :
               path_cmp(judged.recorded[i], judged.result) # "Less"
        /\ \A l \in CrossLexemes :
               path_cmp(path_of_set(cross.lexeme_list, {l}, LexemePath_new),
                        judged.result) # "Less"

\* judge returned a path that a backward step found, not the first forward pass
C10_Witness ==
    /\ judged.done
    /\ Len(judged.recorded) >= 3
    /\ path_cmp(judged.result, judged.recorded[1]) = "Less"

(***************************************************************************)
(* Properties of compounding.                                              *)
(***************************************************************************)
\* the assembled lexemes a compounded lexeme stands for: those from index
\* s[i] up to the one before the next compounded lexeme's first
group_last(s, i) == IF i < Len(call.compounded) THEN s[i + 1] - 1 ELSE Len(call.assembled)

\* the lexeme types of a group and the type of the lexeme that replaces it
merge_type(types) ==
    IF types = <<"ARABIC", "CNUM">> THEN "CNUM"
    ELSE IF types = <<"ARABIC", "COUNT">> THEN "CQUAN"
    ELSE IF types = <<"CNUM", "COUNT">> THEN "CQUAN"
    ELSE IF types = <<"ARABIC", "CNUM", "COUNT">> THEN "CQUAN"
    ELSE IF Len(types) = 1 THEN types[1]
    ELSE "NONE"

RECURSIVE sum_length(_, _, _)
sum_length(list, from, to) ==
    IF from > to THEN 0 ELSE list[from].length + sum_length(list, from + 1, to)

\* compounded[i] is the merge of assembled[from..to]
is_merge_of(i, from, to) ==
    /\ from <= to
    /\ call.compounded[i].begin = call.assembled[from].begin
    /\ call.compounded[i].length = sum_length(call.assembled, from, to)
    /\ call.compounded[i].lexeme_type =
           merge_type([k \in 1..(to - from + 1) |-> call.assembled[from + k - 1].lexeme_type])
    /\ \A k \in from..(to - 1) :
           get_end_position(call.assembled[k]) = get_begin_position(call.assembled[k + 1])

\* compounded[i] could still take the assembled lexeme at index next
could_merge(i, next) ==
    /\ next <= Len(call.assembled)
    /\ get_end_position(call.compounded[i]) = get_begin_position(call.assembled[next])
    /\ \/ /\ call.compounded[i].lexeme_type = "ARABIC"
          /\ call.assembled[next].lexeme_type \in {"CNUM", "COUNT"}
       \/ /\ call.compounded[i].lexeme_type = "CNUM"
          /\ call.assembled[next].lexeme_type = "COUNT"

\* C11: INDEX mode never merges; in SEARCH mode the lexemes after compounding
\* are the output lexemes with every run of adjacent ARABIC CNUM, ARABIC COUNT,
\* CNUM COUNT or ARABIC CNUM COUNT replaced by one lexeme of the summed length
\* and type CNUM (ARABIC CNUM) or CQUAN, nothing else merged, no consumed lexeme
\* left in the list, and no lexeme left next to one it should have taken.
C11_Compound ==
    call.returned =>
        /\ mode = "INDEX" => call.compounded = call.assembled
        /\ mode = "SEARCH" =>
               /\ (call.compounded = <<>>) = (call.assembled = <<>>)
               /\ \E s \in [1..Len(call.compounded) -> 1..Len(call.assembled)] :
                      /\ Len(call.compounded) > 0 => s[1] = 1
                      /\ \A i \in 1..Len(call.compounded) :
                             /\ is_merge_of(i, s[i], group_last(s, i))
                             /\ ~could_merge(i, group_last(s, i) + 1)

\* a SEARCH call merged an ARABIC, a CNUM and a COUNT lexeme into one CQUAN
C11_Witness ==
    /\ call.returned
    /\ mode = "SEARCH"
    /\ Len(call.assembled) = 3
    /\ Len(call.compounded) = 1
    /\ call.compounded[1].lexeme_type = "CQUAN"

(***************************************************************************)
(* Properties of normalization.                                            *)
(***************************************************************************)
\* the full-width uppercase letters U+FF21..U+FF3A
FullWidthUpper == 65313..65338

\* C12: normalization is idempotent: regularize(regularize(c)) = regularize(c)
\* for every character, and tokenizing the twice-normalized text gives what
\* tokenizing the normalized text gives.
C12_NormalizeIdempotent ==
    /\ util_op.op = "regularize" => regularize(util_op.output) = util_op.output
    /\ util_op.op = "regularize_str" => regularize_str(util_op.output) = util_op.output
    /\ util_op.op = "tokenize" => util_op.twice = util_op.once

\* C12 as amended: the same for every character that is no full-width
\* uppercase letter and every text that holds none; a full-width uppercase
\* letter becomes its ASCII uppercase letter, which a second regularize
\* lowercases.
C12_NormalizeIdempotentButFullWidthUpper ==
    /\ util_op.op = "regularize" =>
           IF util_op.input \in FullWidthUpper
           THEN /\ util_op.output = util_op.input - 65248
                /\ regularize(util_op.output) = util_op.output + 32
           ELSE regularize(util_op.output) = util_op.output
    /\ (/\ util_op.op = "regularize_str"
        /\ \A i \in 1..Len(util_op.input) : util_op.input[i] \notin FullWidthUpper)
           => regularize_str(util_op.output) = util_op.output
    /\ (/\ util_op.op = "tokenize"
        /\ \A i \in 1..Len(util_op.input) : util_op.input[i] \notin FullWidthUpper)
           => util_op.twice = util_op.once

\* a text of characters that normalization changes, none of them a full-width
\* uppercase letter, was normalized once and twice and tokenized to some lexeme
C12_Witness ==
    /\ util_op.op = "tokenize"
    /\ Len(util_op.input) = MaxUtilLen
    /\ \A i \in 1..Len(util_op.input) :
           /\ util_op.input[i] \notin FullWidthUpper
           /\ regularize(util_op.input[i]) # util_op.input[i]
    /\ ~util_op.once.panicked
    /\ Len(util_op.once.final_results) >= 1

\* C13: regularize maps U+3000 to ' ', U+FF01..U+FF5E to the code point 65248
\* below, 'A'..'Z' to the code point 32 above, and nothing else; one rule
\* only, so a full-width uppercase letter becomes the ASCII uppercase letter,
\* and full-width "Ade" in INDEX mode gives the one token "Ade".
C13_RegularizeRules ==
    /\ util_op.op = "regularize" =>
           /\ util_op.input = 12288 => util_op.output = 32
           /\ util_op.input \in 65281..65374 => util_op.output = util_op.input - 65248
           /\ util_op.input \in 65..90 => util_op.output = util_op.input + 32
           /\ util_op.input \notin ({12288} \cup (65281..65374) \cup (65..90))
                  => util_op.output = util_op.input
           /\ util_op.input \in FullWidthUpper => util_op.output \in 65..90
    /\ util_op.op = "regularize_str" =>
           /\ Len(util_op.output) = Len(util_op.input)
           /\ \A i \in 1..Len(util_op.input) :
                  util_op.input[i] \in FullWidthUpper => util_op.output[i] \in 65..90
    /\ (util_op.op = "tokenize" /\ util_op.input = FullWidthAde /\ util_op.mode = "INDEX") =>
           /\ ~util_op.once.panicked
           /\ Len(util_op.once.final_results) = 1
           /\ util_op.once.final_results[1].lexeme_text = <<65, 100, 101>>

\* full-width "Ade" was tokenized in INDEX mode
C13_Witness ==
    /\ util_op.op = "tokenize"
    /\ util_op.input = FullWidthAde
    /\ util_op.mode = "INDEX"
    /\ Len(util_op.once.final_results) = 1

(***************************************************************************)
(* Properties of TokenMode.                                                *)
(***************************************************************************)
\* C20: try_from gives INDEX for "ik_max", SEARCH for "ik_smart" and an Err
\* for every other string, another case or surrounding whitespace included;
\* the default mode is INDEX.
C20_TokenModeAlias ==
    /\ util_op.op = "try_from" =>
           /\ util_op.input = "ik_max" => (util_op.result.ok /\ util_op.result.mode = "INDEX")
           /\ util_op.input = "ik_smart" => (util_op.result.ok /\ util_op.result.mode = "SEARCH")
           /\ util_op.input \notin {"ik_max", "ik_smart"} => ~util_op.result.ok
    /\ util_op.op = "default" => util_op.result = "INDEX"

\* try_from was handed an alias in another case and gave an Err
C20_Witness ==
    /\ util_op.op = "try_from"
    /\ util_op.input = "IK_MAX"
    /\ ~util_op.result.ok

(***************************************************************************)
(* Properties of is_stop_word and of Trie::delete.                         *)
(***************************************************************************)
\* the characters buffer[offset .. offset+length) of the is_stop_word call
stop_span == SubSeq(trie_op.chars, trie_op.offset + 1, trie_op.offset + trie_op.length)

C15_DeleteFrame ==
    trie_op.op = "delete" =>
        /\ trie_op.result = TRUE
        /\ trie.nodes = trie_op.before.nodes
        /\ trie.final = trie_op.before.final \ {trie_op.chars}
        /\ \A v \in TrieWords \ {trie_op.chars} : exist(trie, v) = exist(trie_op.before, v)
        /\ trie_op.chars \notin trie_op.before.nodes => trie = trie_op.before

\* delete cleared the flag of a word that is the prefix of another word
C15_Witness ==
    /\ trie_op.op = "delete"
    /\ trie_op.chars \in trie_op.before.final
    /\ trie_op.chars \notin trie.final
    /\ has_childs(trie, trie_op.chars)
    /\ trie.final # {}

(***************************************************************************)
(* Properties of the resolution of a cross group.                          *)
(***************************************************************************)
\* candidates i and j of the call are a cross group of their own: they overlap
\* and every other candidate ends at or before the first or begins at or
\* after the end of the second
two_lexeme_group(i, j) ==
    /\ i # j
    /\ call.origin_lexemes[i].begin < call.origin_lexemes[j].begin
    /\ overlap(call.origin_lexemes[i], call.origin_lexemes[j])
    /\ \A k \in 1..Len(call.origin_lexemes) :
           k \notin {i, j} =>
               \/ call.origin_lexemes[k].begin >= get_end_position(call.origin_lexemes[j])
               \/ /\ call.origin_lexemes[k].begin < call.origin_lexemes[i].begin
                  /\ get_end_position(call.origin_lexemes[k]) <= call.origin_lexemes[i].begin

\* the lexeme of begin b and length n is among those the assembler put out
assembled_has(b, n) ==
    \E k \in 1..Len(call.assembled) :
        call.assembled[k].begin = b /\ call.assembled[k].length = n

\* C18: in SEARCH mode, of a cross group of exactly two overlapping candidates
\* of equal length the later-starting one is put out, the earlier one is not,
\* and every CHINESE character of the earlier one before the later one is put
\* out as a single-character lexeme.
C18_LaterOfTwoChosen ==
    (call.returned /\ mode = "SEARCH") =>
        \A i, j \in 1..Len(call.origin_lexemes) :
            (/\ two_lexeme_group(i, j)
             /\ call.origin_lexemes[i].length = call.origin_lexemes[j].length) =>
                /\ assembled_has(call.origin_lexemes[j].begin, call.origin_lexemes[j].length)
                /\ ~assembled_has(call.origin_lexemes[i].begin, call.origin_lexemes[i].length)
                /\ \A p \in call.origin_lexemes[i].begin..(call.origin_lexemes[j].begin - 1) :
                       char_type_of(call.regular_str[p + 1]) = "CHINESE"
                           => \E k \in 1..Len(call.assembled) :
                                  /\ call.assembled[k].begin = p
                                  /\ call.assembled[k].length = 1
                                  /\ call.assembled[k].lexeme_type = "CNCHAR"

\* a SEARCH call had two overlapping two-character words as a cross group and
\* returned a single character and the later word
C18_Witness ==
    /\ call.returned
    /\ mode = "SEARCH"
    /\ Len(call.tokens) = 2
    /\ call.tokens[1].position_length = 1
    /\ call.tokens[2].position = 1
    /\ call.tokens[2].position_length = 2
    /\ \E i, j \in 1..Len(call.origin_lexemes) :
           /\ two_lexeme_group(i, j)
           /\ call.origin_lexemes[i].length = call.origin_lexemes[j].length

\* the lexemes of the cross group that span it: from its first position to its end
spanning_lexemes ==
    {l \in CrossLexemes : l.begin = cross.path_begin /\ l.begin + l.length = cross.path_end}

\* C19: in SEARCH mode, when one candidate spans the whole cross group, the
\* resolved path is that lexeme alone.
C19_SpanningLexemeAlone ==
    judged.done =>
        \A l \in spanning_lexemes : judged.result.lexeme_list = <<l>>

\* judge was handed a group of a spanning lexeme and shorter lexemes that
\* between them cover the same positions
C19_Witness ==
    /\ judged.done
    /\ spanning_lexemes # {}
    /\ size(cross) >= 3
    /\ \E S \in SUBSET (CrossLexemes \ spanning_lexemes) :
           /\ pairwise_disjoint(S)
           /\ path_of_set(cross.lexeme_list, S, LexemePath_new).payload_length
                  = cross.path_end - cross.path_begin

(***************************************************************************)
(* Properties of concurrent calls.                                         *)
(***************************************************************************)
\* C16: threads may call token_stream concurrently on the shared GLOBAL_IK and
\* GLOBAL_DICT: under fair scheduling every call that was made eventually
\* returns its tokens (none waits for a mutex for ever, none ends otherwise).
C16_EveryCallReturns ==
    \A t \in Threads : (threads[t].pc = "wait_ik") ~> (threads[t].pc = "returned")

\* C17: a dictionary mutation never takes effect in the middle of a tokenize
\* call: all the lookups of one call are made in the same dictionary contents.
C17_OneDictionaryPerCall ==
    \A t \in Threads : threads[t].pc # "idle" => Cardinality(threads[t].seen) <= 1
(***************************************************************************)
(* Properties of character classification.                                 *)
(***************************************************************************)
CharTypes == {"USELESS", "ARABIC", "ENGLISH", "CHINESE", "OtherCjk", "SPECIAL"}

\* C21: char_type_of gives a CharType for every character, never fails, and
\* gives USELESS for a character that no Unicode block covers.
C21_CharTypeTotal ==
    util_op.op = "char_type_of" =>
        /\ util_op.output \in CharTypes
        /\ find_unicode_block(util_op.input) = "None" => util_op.output = "USELESS"

(***************************************************************************)
(* The round trip through the token texts.                                 *)
(***************************************************************************)
RECURSIVE same_up_to_compounding(_, _, _, _)
\* b[j..] is a[i..] with runs of lexemes replaced by one compounded lexeme
\* (type CNUM or CQUAN) whose text is the run's texts one after the other
same_up_to_compounding(a, b, i, j) ==
    IF j > Len(b) THEN i > Len(a)
    ELSE \E k \in i..Len(a) :
             /\ concat_texts(SubSeq(a, i, k), 1) = b[j].lexeme_text
             /\ k > i => b[j].lexeme_type \in {"CNUM", "CQUAN"}
             /\ same_up_to_compounding(a, b, k + 1, j + 1)

\* the second tokenize returned the token texts of the first, up to compounding
round_trip_same ==
    /\ ~util_op.again.panicked
    /\ ~util_op.again.hung
    /\ \/ same_up_to_compounding(util_op.once.final_results, util_op.again.final_results, 1, 1)
       \/ same_up_to_compounding(util_op.again.final_results, util_op.once.final_results, 1, 1)

\* a tokenize call that returned tokens
round_trip_made ==
    /\ util_op.op = "round_trip"
    /\ ~util_op.once.panicked
    /\ ~util_op.once.hung

tiles_input(lexemes, n) ==
    /\ Len(lexemes) > 0
    /\ lexemes[1].begin = 0
    /\ \A i \in 1..(Len(lexemes) - 1) :
           lexemes[i].begin + lexemes[i].length = lexemes[i + 1].begin
    /\ lexemes[Len(lexemes)].begin + lexemes[Len(lexemes)].length = n

of_type(lexemes, lexeme_type) == SelectSeq(lexemes, LAMBDA l : l.lexeme_type = lexeme_type)

\* no lexeme occurs twice in the sequence
no_repeats(lexemes) ==
    \A i, j \in 1..Len(lexemes) : lexemes[i] = lexemes[j] => i = j

\* the characters at indices i..j of the buffer are digits and number
\* connectors of type USELESS, with a digit at both ends
arabic_linked(b, i, j) ==
    /\ i <= j
    /\ char_type_of(b[i + 1]) = "ARABIC"
    /\ char_type_of(b[j + 1]) = "ARABIC"
    /\ \A k \in i..j :
           \/ char_type_of(b[k + 1]) = "ARABIC"
           \/ char_type_of(b[k + 1]) = "USELESS" /\ b[k + 1] \in NUM_CONNECTOR

\* the maximal runs of the buffer, each as the ARABIC lexeme from its first
\* digit to its last
arabic_runs(b) ==
    {Lexeme(0, i, j - i + 1, "ARABIC") : <<i, j>> \in
        {p \in (0..(Len(b) - 1)) \X (0..(Len(b) - 1)) :
            /\ arabic_linked(b, p[1], p[2])
            /\ \A q \in (0..(Len(b) - 1)) \X (0..(Len(b) - 1)) :
                   (arabic_linked(b, q[1], q[2]) /\ q[1] <= p[1] /\ p[2] <= q[2]) => q = p}}

\* C23: on a buffer that is not empty, a LetterSegmenter that holds no open run
\* returns exactly one ARABIC lexeme for each maximal run of digits joined by
\* number connectors, from the run's first digit to its last, wherever in the
\* buffer the run ends.
C23_ArabicRuns ==
    (/\ util_op.op = "letter"
     /\ Len(util_op.input) > 0
     /\ util_op.before = LetterSegmenter_new) =>
        /\ no_repeats(of_type(util_op.lexemes, "ARABIC"))
        /\ {util_op.lexemes[i] : i \in {k \in 1..Len(util_op.lexemes) :
                                         util_op.lexemes[k].lexeme_type = "ARABIC"}}
           = arabic_runs(util_op.input)

\* a number ends right before index p of the buffer: a digit (the last of an
\* Arabic run) or a Chinese numeral (the last of a CNUM run) stands at p - 1
number_ends_at(b, p) ==
    /\ p >= 1
    /\ \/ char_type_of(b[p]) = "ARABIC"
       \/ is_cnumber_char(b[p]) /\ ~is_cnumber_char(b[p + 1])

\* the COUNT lexemes the quantifier pass owes: every quantifier word that
\* starts at a CHINESE character right after a number
counts_after_numbers(dict, b) ==
    {Lexeme(0, p, k, "COUNT") : <<p, k>> \in
        {q \in (0..(Len(b) - 1)) \X (1..Len(b)) :
            /\ q[1] + q[2] <= Len(b)
            /\ char_type_of(b[q[1] + 1]) = "CHINESE"
            /\ number_ends_at(b, q[1])
            /\ exist(dict.quantifier_dict, SubSeq(b, q[1] + 1, q[1] + q[2]))}}

\* C24: the quantifier pass returns a COUNT lexeme for exactly the quantifier
\* words that start at a CHINESE character at which an Arabic-digit run or a
\* Chinese-numeral run ends.
C24_CountAfterNumber ==
    util_op.op = "quantifier" =>
        {util_op.lexemes[i] : i \in {k \in 1..Len(util_op.lexemes) :
                                        util_op.lexemes[k].lexeme_type = "COUNT"}}
        = counts_after_numbers(GLOBAL_DICT, util_op.input)

\* the buffer is one Chinese numeral, then a one-character quantifier word
\* that starts no longer quantifier word, then no further numeral
numeral_then_one_quantifier(dict, b) ==
    /\ Len(b) >= 2
    /\ is_cnumber_char(b[1])
    /\ \A i \in 2..Len(b) : ~is_cnumber_char(b[i])
    /\ \A k \in 1..(Len(b) - 1) : exist(dict.quantifier_dict, SubSeq(b, 2, k + 1)) <=> k = 1

\* C25: every COUNT lexeme CnQuantifierSegmenter::analyze returns begins where
\* a CNUM lexeme of the same call ends and spans a word of the quantifier
\* dictionary; a numeral followed by one one-character quantifier match gives
\* exactly the CNUM and the COUNT lexeme.
C25_CountFollowsCnum ==
    util_op.op = "quantifier" =>
        /\ \A i \in 1..Len(util_op.lexemes) :
               util_op.lexemes[i].lexeme_type = "COUNT" =>
                   /\ \E j \in 1..Len(util_op.lexemes) :
                          /\ util_op.lexemes[j].lexeme_type = "CNUM"
                          /\ util_op.lexemes[j].begin + util_op.lexemes[j].length
                             = util_op.lexemes[i].begin
                   /\ util_op.lexemes[i].length >= 1
                   /\ util_op.lexemes[i].begin + util_op.lexemes[i].length
                      <= Len(util_op.input)
                   /\ exist(GLOBAL_DICT.quantifier_dict,
                            SubSeq(util_op.input, util_op.lexemes[i].begin + 1,
                                   util_op.lexemes[i].begin + util_op.lexemes[i].length))
        /\ numeral_then_one_quantifier(GLOBAL_DICT, util_op.input) =>
               util_op.lexemes = <<Lexeme(0, 0, 1, "CNUM"), Lexeme(0, 1, 1, "COUNT")>>

\* analyze on a numeral, a quantifier and a third character returned two lexemes
C25_Witness ==
    /\ util_op.op = "quantifier"
    /\ Len(util_op.input) = 3
    /\ numeral_then_one_quantifier(GLOBAL_DICT, util_op.input)
    /\ Len(util_op.lexemes) = 2

\* the characters at indices i..j of the buffer are Chinese numerals, and the
\* run cannot be extended on either side
cnumber_run(b, i, j) ==
    /\ i <= j
    /\ \A k \in i..j : is_cnumber_char(b[k + 1])
    /\ i > 0 => ~is_cnumber_char(b[i])
    /\ j < Len(b) - 1 => ~is_cnumber_char(b[j + 2])

cnumber_runs(b) ==
    {Lexeme(0, p[1], p[2] - p[1] + 1, "CNUM") :
        p \in {q \in (0..(Len(b) - 1)) \X (0..(Len(b) - 1)) : cnumber_run(b, q[1], q[2])}}

\* C26: the number pass returns exactly one CNUM lexeme for each maximal run
\* of Chinese numerals, covering that run, also for a run at the end of the
\* buffer; whatever else analyze returns is a COUNT lexeme of the second pass.
C26_CnumRuns ==
    util_op.op = "quantifier" =>
        /\ no_repeats(of_type(util_op.lexemes, "CNUM"))
        /\ {util_op.lexemes[i] : i \in {k \in 1..Len(util_op.lexemes) :
                                         util_op.lexemes[k].lexeme_type = "CNUM"}}
           = cnumber_runs(util_op.input)
        /\ \A i \in 1..Len(util_op.lexemes) :
               util_op.lexemes[i].lexeme_type \in {"CNUM", "COUNT"}

\* analyze returned two CNUM lexemes, the second for the last character alone
C26_Witness ==
    /\ util_op.op = "quantifier"
    /\ Len(of_type(util_op.lexemes, "CNUM")) = 2
    /\ of_type(util_op.lexemes, "CNUM")[2] = Lexeme(0, Len(util_op.input) - 1, 1, "CNUM")

\* the CNWORD lexemes the CJK segmenter owes: every main-dictionary word of the
\* buffer that starts at a character that is not USELESS
main_dict_words(dict, b) ==
    {Lexeme(0, q[1], q[2], "CNWORD") :
        q \in {r \in (0..(Len(b) - 1)) \X (1..Len(b)) :
                  /\ r[1] + r[2] <= Len(b)
                  /\ char_type_of(b[r[1] + 1]) # "USELESS"
                  /\ exist(dict.main_dict, SubSeq(b, r[1] + 1, r[1] + r[2]))}}

strictly_increasing(list) ==
    \A i \in 1..Len(list) : \A j \in 1..Len(list) :
        i < j => lexeme_cmp(list[i], list[j]) = "Less"

\* no two nodes have the same begin and the same length
distinct_spans(list) ==
    \A i \in 1..Len(list) : \A j \in 1..Len(list) :
        i # j => ~(list[i].begin = list[j].begin /\ list[i].length = list[j].length)

\* the list holds a lexeme equal to data
stores_equal(list, data) == \E i \in 1..Len(list) : lexeme_eq(list[i], data)

\* C28: after any sequence of insert calls on a list of lexemes with offset 0,
\* forward iteration is strictly increasing in the natural order (begin
\* ascending, then length descending), no two stored lexemes share (begin,
\* length), an insert of a lexeme equal to a stored one leaves the list as it
\* was, and length() is the number of stored nodes.
C28_ListOrdered ==
    /\ strictly_increasing(olist.nodes)
    /\ distinct_spans(olist.nodes)
    /\ olist.length = Len(olist.nodes)
    /\ (list_op.op = "insert" /\ stores_equal(list_op.before.nodes, list_op.data))
           => olist = list_op.before

\* a lexeme equal to a node in the middle of a list of three, but of another
\* type, was inserted
C28_Witness ==
    /\ list_op.op = "insert"
    /\ Len(list_op.before.nodes) >= 3
    /\ lexeme_eq(list_op.before.nodes[2], list_op.data)
    /\ list_op.before.nodes[2].lexeme_type # list_op.data.lexeme_type

\* the lexeme and the half-open span [path_begin, path_end) share a position
overlaps_span(lexeme, path_begin, path_end) ==
    lexeme.begin < path_end /\ path_begin < lexeme.begin + lexeme.length

\* every lexeme of list a is a lexeme of list b
kept_in(a, b) == \A i \in 1..Len(a) : \E j \in 1..Len(b) : b[j] = a[i]

\* what a successful add_cross_lexeme(lexeme) leaves of the path before
cross_extended(before, lexeme, after) ==
    /\ stores_equal(after.lexeme_list, lexeme)
    /\ kept_in(before.lexeme_list, after.lexeme_list)
    /\ after.path_begin = (IF size(before) = 0 THEN lexeme.begin ELSE before.path_begin)
    /\ after.path_end = (IF lexeme.begin + lexeme.length > before.path_end
                         THEN lexeme.begin + lexeme.length ELSE before.path_end)
    /\ after.payload_length = after.path_end - after.path_begin

\* C29: add_cross_lexeme(L) succeeds iff the path is empty or L overlaps the
\* half-open span [path_begin, path_end); on success L is stored, path_begin
\* is unchanged (L.begin when the path was empty), path_end becomes
\* max(path_end, L.begin + L.length) and payload_length becomes path_end -
\* path_begin; on failure the path is left as it was.
C29_AddCross ==
    cross_op.op = "add_cross_lexeme" =>
        /\ cross_op.ok <=> (size(cross_op.before) = 0
                            \/ overlaps_span(cross_op.lexeme, cross_op.before.path_begin,
                                             cross_op.before.path_end))
        /\ cross_op.ok => cross_extended(cross_op.before, cross_op.lexeme, cross)
        /\ ~cross_op.ok => cross = cross_op.before

\* a lexeme that begins before the span and ends after it was added to a path
\* of two lexemes
C29_Witness ==
    /\ cross_op.op = "add_cross_lexeme"
    /\ cross_op.ok
    /\ size(cross_op.before) >= 2
    /\ cross_op.lexeme.begin < cross_op.before.path_begin
    /\ cross_op.lexeme.begin + cross_op.lexeme.length > cross_op.before.path_end

RECURSIVE cross_group_head(_, _)
\* the greatest end position among the lexemes list[i] .. list[j]
max_end(list, i, j) ==
    CHOOSE e \in {get_end_position(list[k]) : k \in i..j} :
        \A k \in i..j : get_end_position(list[k]) <= e

\* lexeme i starts a group: it is the first, or it begins at or after the
\* greatest end of the group of the lexeme before it
starts_group(list, i) ==
    i = 1 \/ list[i].begin >= max_end(list, cross_group_head(list, i - 1), i - 1)

\* the index of the first lexeme of the group of lexeme i
cross_group_head(list, i) == IF starts_group(list, i) THEN i ELSE cross_group_head(list, i - 1)

\* the indices that start a group
cross_group_heads(list) == {i \in 1..Len(list) : starts_group(list, i)}

\* the index of the last lexeme of the group that starts at h
cross_group_last(list, h) ==
    CHOOSE t \in h..Len(list) :
        /\ cross_group_head(list, t) = h
        /\ (t = Len(list) \/ starts_group(list, t + 1))

\* the lexemes of the group that starts at h, in list order
cross_group_at(list, h) == SubSeq(list, h, cross_group_last(list, h))

\* the cross path that holds exactly the lexemes of group g
cross_path_of(g) ==
    [path_begin |-> g[1].begin, path_end |-> max_end(g, 1, Len(g)),
     payload_length |-> max_end(g, 1, Len(g)) - g[1].begin, lexeme_list |-> g]

\* path is stored under its own path_begin and holds lexemes of group g only
entry_of_group(path_map, k, g) ==
    /\ path_map[k].path_begin = k
    /\ Len(path_map[k].lexeme_list) > 0
    /\ kept_in(path_map[k].lexeme_list, g)

\* the group g has exactly one entry, and that entry is the group unchanged
\* when it has one lexeme or the mode is INDEX
group_stored(path_map, g, token_mode) ==
    /\ Cardinality({k \in DOMAIN path_map : entry_of_group(path_map, k, g)}) = 1
    /\ (Len(g) = 1 \/ token_mode = "INDEX")
           => path_map[g[1].begin] = cross_path_of(g)

\* C30: process partitions the sorted candidate list into consecutive cross
\* groups: a lexeme starts a new group iff its begin is at or after the
\* greatest end of the current group, so every candidate is in exactly one
\* group; the spans of distinct groups are disjoint; each group yields exactly
\* one path-map entry, keyed by the stored path's path_begin; and a group of
\* one lexeme (either mode) or any group in INDEX mode is stored unchanged.
C30_ProcessGroups ==
    (list_op.op = "process" /\ Len(list_op.org_lexemes) > 0) =>
        /\ \A h \in cross_group_heads(list_op.org_lexemes) :
               group_stored(list_op.path_map, cross_group_at(list_op.org_lexemes, h),
                            list_op.mode)
        /\ Cardinality(DOMAIN list_op.path_map)
               = Cardinality(cross_group_heads(list_op.org_lexemes))
        /\ \A h \in cross_group_heads(list_op.org_lexemes) :
               \A i \in cross_group_heads(list_op.org_lexemes) :
                   h < i => max_end(list_op.org_lexemes, h,
                                    cross_group_last(list_op.org_lexemes, h))
                                <= list_op.org_lexemes[i].begin

\* process in SEARCH mode met a group of three lexemes followed by a group of one
C30_Witness ==
    /\ list_op.op = "process"
    /\ list_op.mode = "SEARCH"
    /\ Len(list_op.org_lexemes) = 4
    /\ cross_group_heads(list_op.org_lexemes) = {1, 4}
    /\ Cardinality(DOMAIN list_op.path_map) = 2

(***************************************************************************)
(* Properties of the enumeration of judge and of the option path.          *)
(***************************************************************************)
RECURSIVE length_product(_, _)
\* the product of the lengths of list[i], list[i + 1], ...
length_product(list, i) ==
    IF i > Len(list) THEN 1 ELSE list[i].length * length_product(list, i + 1)

RECURSIVE weighted_length_sum(_, _)
\* the sum of k * list[k].length for k = i, i + 1, ...
weighted_length_sum(list, i) ==
    IF i > Len(list) THEN 0 ELSE i * list[i].length + weighted_length_sum(list, i + 1)

\* the six keys of a path, each turned so that the smaller key is preferred
path_keys(path) ==
    << 0 - path.payload_length, Len(path.lexeme_list), 0 - (path.path_end - path.path_begin),
       0 - path.path_end, 0 - length_product(path.lexeme_list, 1),
       0 - weighted_length_sum(path.lexeme_list, 1) >>

\* key tuple a comes before key tuple b: at the first key that differs a is smaller
keys_before(a, b) ==
    \E k \in 1..6 : a[k] < b[k] /\ \A j \in 1..(k - 1) : a[j] = b[j]

\* C31: judge returns one of the option paths it recorded, and none of the
\* recorded option paths comes before it in the order that compares payload
\* length (larger first), number of lexemes (fewer first), span path_end -
\* path_begin (larger first), path_end (larger first), the product of the
\* lexeme lengths (larger first) and the sum of i * length_i (larger first).
C31_JudgeLeastRecorded ==
    judged.done =>
        /\ \E i \in 1..Len(judged.recorded) : judged.recorded[i] = judged.result
        /\ \A i \in 1..Len(judged.recorded) :
               ~keys_before(path_keys(judged.recorded[i]), path_keys(judged.result))

\* judge chose between two recorded paths that differ in the last key only
C31_Witness ==
    /\ judged.done
    /\ \E i \in 1..Len(judged.recorded) :
           /\ \A k \in 1..5 : path_keys(judged.recorded[i])[k] = path_keys(judged.result)[k]
           /\ path_keys(judged.result)[6] < path_keys(judged.recorded[i])[6]

\* each lexeme of the list ends at or before the begin of the next one
non_crossing(list) ==
    \A k \in 1..(Len(list) - 1) : list[k].begin + list[k].length <= list[k + 1].begin

\* C32: every option path judge records (after the first forward pass and
\* after each back_path + forward_path step, the option path being carried
\* over from step to step) holds lexemes of the cross group only, and for
\* consecutive lexemes L1, L2 of it L1.begin + L1.length <= L2.begin.
C32_RecordedPathsNonCrossing ==
    judged.done =>
        \A i \in 1..Len(judged.recorded) :
            /\ \A k \in 1..size(judged.recorded[i]) :
                   judged.recorded[i].lexeme_list[k] \in CrossLexemes
            /\ non_crossing(judged.recorded[i].lexeme_list)

\* a path of two or more lexemes recorded after a backward step holds a lexeme
\* that the step carried over from the path recorded before it
C32_Witness ==
    /\ judged.done
    /\ \E i \in 2..Len(judged.recorded) :
           /\ size(judged.recorded[i]) >= 2
           /\ \E k \in 1..size(judged.recorded[i]) :
                  \E j \in 1..size(judged.recorded[i - 1]) :
                      judged.recorded[i].lexeme_list[k] = judged.recorded[i - 1].lexeme_list[j]

RECURSIVE length_sum(_, _)
\* the sum of the lengths of list[i], list[i + 1], ...
length_sum(list, i) ==
    IF i > Len(list) THEN 0 ELSE list[i].length + length_sum(list, i + 1)

\* the three fields of the path say what its lexeme list holds
fields_match_list(path) ==
    IF Len(path.lexeme_list) = 0
    THEN path.path_begin = -1 /\ path.path_end = -1 /\ path.payload_length = 0
    ELSE /\ path.path_begin = path.lexeme_list[1].begin
         /\ path.path_end = path.lexeme_list[Len(path.lexeme_list)].begin
                                + path.lexeme_list[Len(path.lexeme_list)].length
         /\ path.payload_length = length_sum(path.lexeme_list, 1)

\* C33: after any sequence of add_not_cross_lexeme and remove_tail calls on a
\* LexemePath, path_begin is the first lexeme's begin, path_end the last
\* lexeme's begin + length and payload_length the sum of the stored lexemes'
\* lengths; for an empty path they are -1, -1 and 0; and a rejected
\* add_not_cross_lexeme changes nothing.
C33_OptionPathFields ==
    /\ fields_match_list(noncross)
    /\ (noncross_op.op = "add_not_cross_lexeme" /\ ~noncross_op.ok)
           => noncross = noncross_op.before

\* a tail was taken off a path of three lexemes and path_end fell back by more
\* than one position
C33_Witness ==
    /\ noncross_op.op = "remove_tail"
    /\ size(noncross_op.before) = 3
    /\ size(noncross) = 2
    /\ noncross.path_end < noncross_op.before.path_end - 1

\* the bookkeeping of a judge call in progress: one conflict popped per turn
\* of the loop, none pushed, and a back_path loop that took off no more
\* lexemes than the option path held
judge_counts ==
    judging.pc \in {"loop", "back", "done"} =>
        /\ Len(judging.lexeme_stack) + judging.iterations = judging.rejected
        /\ judging.removed <= judging.back_size
        /\ judging.pc # "back" => Len(judging.recorded) = judging.iterations + 1
        /\ judging.pc = "done" => judging.iterations = judging.rejected

\* C34: judge terminates on every finite cross group: each turn of its loop
\* pops exactly one conflict and the stack never grows after the first forward
\* pass, so the loop runs exactly once per lexeme rejected in that pass; every
\* back_path loop ends after removing at most all lexemes of the option path;
\* and a call that has begun returns.
C34_JudgeTerminates ==
    /\ [](judge_counts)
    /\ (judging.pc \in {"loop", "back"}) ~> (judging.pc = "done")

\* judge returned after three turns of its loop, in which back_path took off
\* two lexemes or more
C34_Witness ==
    /\ judging.pc = "done"
    /\ judging.iterations >= 3
    /\ judging.removed_total >= 2

(***************************************************************************)
(* Properties of the assembled lexemes and of the tokens.                  *)
(***************************************************************************)
\* the lexeme lies over character position p
covers(l, p) == l.begin <= p /\ p < l.begin + l.length

\* the assembled lexemes of the last call that lie over position p
covering(p) == {i \in 1..Len(call.assembled) : covers(call.assembled[i], p)}

\* the lexeme is one of the candidates the sub-segmenters returned
is_candidate(l) == \E i \in 1..Len(call.origin_lexemes) : call.origin_lexemes[i] = l

\* the lexeme is the single-character lexeme of a CHINESE or OtherCJK position
is_single_char(l) ==
    /\ l.begin < Len(call.regular_str)
    /\ \/ (char_type_of(call.regular_str[l.begin + 1]) = "CHINESE"
           /\ l = Lexeme(0, l.begin, 1, "CNCHAR"))
       \/ (char_type_of(call.regular_str[l.begin + 1]) = "OtherCjk"
           /\ l = Lexeme(0, l.begin, 1, "OtherCJK"))

\* C35: in SEARCH mode, before stop-word filtering, every CHINESE or OtherCJK
\* position lies under exactly one assembled lexeme; an assembled lexeme is a
\* lexeme of a chosen path or the single-character lexeme of a position that
\* no chosen lexeme covers, typed CNCHAR for CHINESE and OtherCJK for OtherCJK;
\* a USELESS position gets no single-character lexeme.
C35_SearchCoversCjkOnce ==
    (phase = "done" /\ call.returned /\ mode = "SEARCH") =>
        /\ \A p \in 0..(Len(call.regular_str) - 1) :
               char_type_of(call.regular_str[p + 1]) \in {"CHINESE", "OtherCjk"}
                   => Cardinality(covering(p)) = 1
        /\ \A i \in 1..Len(call.assembled) :
               is_candidate(call.assembled[i]) \/ is_single_char(call.assembled[i])
        /\ \A i \in 1..Len(call.assembled) :
               call.assembled[i].lexeme_type \in {"CNCHAR", "OtherCJK"}
                   => is_single_char(call.assembled[i])

\* a SEARCH call put the single-character lexeme of an OtherCJK position
\* between two lexemes of one chosen path, over a candidate that crosses both
C35_Witness ==
    /\ phase = "done" /\ call.returned /\ mode = "SEARCH"
    /\ Len(call.assembled) = 3
    /\ is_candidate(call.assembled[1]) /\ call.assembled[1].length = 2
    /\ call.assembled[2] = Lexeme(0, 2, 1, "OtherCJK") /\ ~is_candidate(call.assembled[2])
    /\ is_candidate(call.assembled[3]) /\ call.assembled[3].begin = 3
    /\ \E i \in 1..Len(call.origin_lexemes) :
           /\ overlap(call.origin_lexemes[i], call.assembled[1])
           /\ overlap(call.origin_lexemes[i], call.assembled[3])

\* C36: for any sequence of calls on the same segmenter, every lexeme a
\* tokenize call on a buffer of n characters returns has length >= 1 and
\* begin + length <= n, so the lookups indices[begin] and
\* indices[begin + length] of token_stream are in range.
C36_LexemesWithinBuffer ==
    phase = "done" =>
        \A i \in 1..Len(call.orig_tokens) :
            /\ call.orig_tokens[i].length >= 1
            /\ call.orig_tokens[i].begin + call.orig_tokens[i].length <= Len(call.regular_str)

\* where a lexeme type stands in the order the sub-segmenters return their results
type_rank(lexeme_type) ==
    CASE lexeme_type = "ENGLISH" -> 1
      [] lexeme_type = "ARABIC"  -> 2
      [] lexeme_type = "LETTER"  -> 3
      [] lexeme_type = "SPECIAL" -> 4
      [] lexeme_type = "CNUM"    -> 5
      [] lexeme_type = "COUNT"   -> 6
      [] lexeme_type = "CNWORD"  -> 7
      [] OTHER                   -> 0

\* two lexemes with the same begin and the same length
same_span(a, b) == a.begin = b.begin /\ a.length = b.length

\* candidate c is the first sub-segmenter result with its span
first_of_span(c) ==
    \E k \in 1..Len(call.segmented) :
        /\ call.segmented[k] = c
        /\ \A j \in 1..(k - 1) : ~same_span(call.segmented[j], c)

\* sub-segmenter results of type a and of type b have the span of candidate c
span_of_both(c, a, b) ==
    /\ \E k \in 1..Len(call.segmented) :
           same_span(call.segmented[k], c) /\ call.segmented[k].lexeme_type = a
    /\ \E k \in 1..Len(call.segmented) :
           same_span(call.segmented[k], c) /\ call.segmented[k].lexeme_type = b

\* the assembled lexeme i is a CNUM that is also a main word, with a COUNT right after it
cnum_word_before_count(i) ==
    /\ i < Len(call.assembled)
    /\ call.assembled[i].lexeme_type = "CNUM"
    /\ span_of_both(call.assembled[i], "CNUM", "CNWORD")
    /\ call.assembled[i + 1].lexeme_type = "COUNT"
    /\ call.assembled[i + 1].begin = call.assembled[i].begin + call.assembled[i].length

\* C37: the sub-segmenters' results reach the candidate list in the order
\* ENGLISH, ARABIC, LETTER, SPECIAL, CNUM, COUNT, CNWORD, and of several
\* results with the same (begin, length) the list keeps the first; so a span
\* that is a Chinese-numeral run and a main-dictionary word is typed CNUM, and
\* in SEARCH mode is compounded with the COUNT after it, and a pure-letter run
\* is typed ENGLISH, not LETTER.
C37_FirstInsertedKept ==
    phase = "done" =>
        /\ \A i \in 1..Len(call.segmented) : \A j \in 1..Len(call.segmented) :
               i < j => type_rank(call.segmented[i].lexeme_type)
                            <= type_rank(call.segmented[j].lexeme_type)
        /\ \A i \in 1..Len(call.segmented) : type_rank(call.segmented[i].lexeme_type) > 0
        /\ \A i \in 1..Len(call.origin_lexemes) : first_of_span(call.origin_lexemes[i])
        /\ \A k \in 1..Len(call.segmented) :
               \E i \in 1..Len(call.origin_lexemes) :
                   same_span(call.origin_lexemes[i], call.segmented[k])
        /\ distinct_spans(call.origin_lexemes)
        /\ \A i \in 1..Len(call.origin_lexemes) :
               /\ span_of_both(call.origin_lexemes[i], "CNUM", "CNWORD")
                      => call.origin_lexemes[i].lexeme_type = "CNUM"
               /\ span_of_both(call.origin_lexemes[i], "ENGLISH", "LETTER")
                      => call.origin_lexemes[i].lexeme_type = "ENGLISH"
        /\ (mode = "SEARCH" /\ call.returned) =>
               \A i \in 1..Len(call.assembled) :
                   cnum_word_before_count(i) =>
                       \E j \in 1..Len(call.compounded) :
                           /\ call.compounded[j].lexeme_type = "CQUAN"
                           /\ covers(call.compounded[j], call.assembled[i].begin)
                           /\ covers(call.compounded[j], call.assembled[i + 1].begin)

\* token a comes strictly before token b: smaller position, or the same position and longer
token_before(a, b) ==
    \/ a.position < b.position
    \/ a.position = b.position /\ a.position_length > b.position_length

\* C38: in both modes the tokens of a returned call are strictly increasing in
\* (position ascending, position_length descending); so tokens with the same
\* position come longest first and no two have the same position and length.
C38_TokensStrictlyOrdered ==
    (phase = "done" /\ call.returned) =>
        \A i \in 1..Len(call.tokens) : \A j \in 1..Len(call.tokens) :
            i < j => token_before(call.tokens[i], call.tokens[j])

\* smaller of two numbers
least(a, b) == IF a < b THEN a ELSE b

\* C39: on a stream of n tokens advance returns true on exactly the first n
\* calls and false on every later call, which leaves the index where it was;
\* after the k-th successful advance token and token_mut refer to the k-th
\* token of the list the call produced.
C39_AdvanceThenToken ==
    (phase = "done" /\ call.returned) =>
        /\ stream.tokens = call.tokens
        /\ stream.index = stream_calls.successes
        /\ stream_calls.successes = least(stream_calls.advances, Len(call.tokens))
        /\ stream_op.op = "advance" =>
               /\ stream_op.returned <=> stream_op.advances <= Len(call.tokens)
               /\ ~stream_op.returned => stream.index = stream_op.index_before
        /\ (stream_op.op \in {"token", "token_mut"} /\ stream_op.successes >= 1) =>
               /\ ~stream_op.panicked
               /\ stream_op.slot = stream_op.successes - 1
               /\ stream_op.token = call.tokens[stream_op.successes]

\* token read after an advance past the end of a stream of two tokens or
\* more: it is the last token of the call
C39_Witness ==
    /\ phase = "done" /\ call.returned
    /\ Len(call.tokens) >= 2
    /\ stream_op.op = "token"
    /\ stream_op.advances > Len(call.tokens)
    /\ stream_op.token = call.tokens[Len(call.tokens)]
====
